---- MODULE Spec2Model ----
(***************************************************************************)
(* A model of go-syndication's feed-type resolution and URL discovery      *)
(* pipeline (package feeds, parser.go) together with the per-format        *)
(* source-URL accessors it relies on (packages rss, atom, jsonfeed).       *)
(*                                                                         *)
(* Two state machines share the pure definitions below:                    *)
(*   Spec       a single caller using NewFeedFromURL, NewFeedFromBytes,    *)
(*              NewFeedFromSource, SetSourceURL and SetImage;              *)
(*   BatchSpec  NewFeedsFromURLs / NewItemsFromURLs with their launcher,   *)
(*              worker and collector goroutines.                           *)
(* FairSpec is Spec with the fairness a running call is entitled to.       *)
(*                                                                         *)
(* The functions of the library that keep no state are applied to          *)
(* arguments drawn from bounded sets:                                      *)
(*   ClassifySpec   the Content-Type switch of parseFeedURL;               *)
(*   DiscoverySpec  discoverFeedURL;                                       *)
(*   AtomSpec       the Validate method of atom.Feed;                      *)
(*   DateSpec       types.DateTime decoding and the items' date getters.   *)
(* NetSpec follows one HTTP request of the library against the caller's    *)
(* context and the clock.                                                  *)
(***************************************************************************)
EXTENDS Integers, Sequences, FiniteSets, TLC

VARIABLES
    call,       \* the NewFeedFromURL call in progress (parseFeedURL recursion)
    obj,        \* the *Feed the caller holds, with what it was at construction
    last,       \* what the last NewFeedFromBytes call was given and returned
    urls,       \* the batch call's argument list
    mode,       \* "feeds" for NewFeedsFromURLs, "items" for NewItemsFromURLs
    launcher,   \* the anonymous launcher goroutine of the batch call
    wg,         \* the sync.WaitGroup counter
    workers,    \* one worker goroutine per element of urls
    closed,     \* whether workerCh has been closed
    results,    \* the slice the collector appends to
    collector,  \* the calling goroutine, ranging over workerCh
    crashed,    \* a goroutine panicked: the process is gone
    arg,        \* the argument a stateless function is applied to
    ret,        \* what that function returned
    ctx,        \* the caller's context.Context: its deadline and cancellation
    req         \* the HTTP request the library has issued under ctx

apiVars   == <<call, obj, last>>
batchVars == <<urls, mode, launcher, wg, workers, closed, results, collector, crashed>>
auxVars   == <<arg, ret, ctx, req>>
vars      == <<call, obj, last, urls, mode, launcher, wg, workers, closed, results,
               collector, crashed, arg, ret, ctx, req>>

\* the value of a variable the state machine at hand does not use
Unused == "unused"

AuxIdle == arg = Unused /\ ret = Unused /\ ctx = Unused /\ req = Unused

-----------------------------------------------------------------------------
(* Bounds of the model.                                                    *)

\* the longest argument list given to a batch call
MaxUrls == 2
\* the fetch counter of one parseFeedURL call saturates here
MaxFetches == 3
\* the caller stops adding links to an Atom feed at this many
MaxLinks == 3

\* the clock of a request's model stops here, in seconds
MaxClock == 32
\* the latest deadline, in seconds from the start, a caller's context carries
MaxDeadline == 2

\* the most elements an HTML page given to discoverFeedURL holds
MaxTokens == 2

\* the most entries an Atom feed given to Validate holds
MaxEntries == 2

\* pieces in a text handed to SanitizeString
MaxPieces == 3

\* the most bytes one Read of the underlying reader hands over
MaxChunk == 8

\* the most durations in a slice handed to GetMedianInterval
MaxIntervals == 3

-----------------------------------------------------------------------------
(* Strings.                                                                *)

\* a nil pointer to a string
Nil == "<nil>"

HasPrefix(s, p) == Len(s) >= Len(p) /\ SubSeq(s, 1, Len(p)) = p

HasSuffix(s, p) == Len(s) >= Len(p) /\ SubSeq(s, Len(s) - Len(p) + 1, Len(s)) = p

\* bytes.Contains
Contains(s, sub) ==
    \E i \in 1..(Len(s) - Len(sub) + 1) : SubSeq(s, i, i + Len(sub) - 1) = sub

\* the index of the first occurrence of sub in s at or after from, 0 if none
IndexFrom(s, sub, from) ==
    LET hits == {i \in from..(Len(s) - Len(sub) + 1) : SubSeq(s, i, i + Len(sub) - 1) = sub}
    IN  IF hits = {} THEN 0 ELSE CHOOSE i \in hits : \A j \in hits : i <= j

SeqContains(seq, x) == \E i \in 1..Len(seq) : seq[i] = x

-----------------------------------------------------------------------------
(* types.MimeTypes*                                                        *)

MimeTypesRSS           == <<"application/rss+xml", "application/rdf+xml">>
MimeTypesAtom          == <<"application/atom+xml">>
MimeTypesIndeterminate == <<"application/xml", "text/xml">>
MimeTypesJSONFeed      == <<"application/feed+json", "application/json">>
MimeTypesFeed          == MimeTypesAtom \o MimeTypesRSS \o MimeTypesIndeterminate
MimeTypesHTML          == <<"text/html", "application/xhtml+xml">>

LinkRelSelf == "self"

\* SourceType constants
TypeRSS      == "RSS"
TypeAtom     == "Atom"
TypeJSONFeed == "JSONFeed"
Formats      == {TypeRSS, TypeAtom, TypeJSONFeed}

-----------------------------------------------------------------------------
(* Errors.  An error value is the set of sentinels errors.Is finds in its  *)
(* chain, and its message; the nil error has neither.                      *)

NoErr == [is |-> {}, msg |-> ""]

NewErr(sentinel, msg) == [is |-> {sentinel}, msg |-> msg]

-----------------------------------------------------------------------------
(* The per-format feed objects, reduced to the fields the pipeline reads   *)
(* and writes: atom.Feed.Links, rss.Channel.AtomLink, jsonfeed.Feed.FeedURL *)
(* and the image each SetImage stores.                                     *)

Link(href, rel, type) == [href |-> href, rel |-> rel, type |-> type]

\* the zero atom.Link of an rss.Channel that has no <atom:link>
ZeroLink == Link("", Nil, "")

ZeroSource == [type |-> "", links |-> <<>>, atomLink |-> ZeroLink, feedURL |-> Nil,
               image |-> "", items |-> <<>>, conformant |-> FALSE]

\* (*Channel).GetSourceURL
RSSGetSourceURL(src) ==
    IF src.atomLink.rel # Nil /\ src.atomLink.rel = LinkRelSelf
    THEN src.atomLink.href
    ELSE ""

\* (*Channel).SetSourceURL
RSSSetSourceURL(src, url) ==
    [src EXCEPT !.atomLink = Link(url, LinkRelSelf, "")]

RECURSIVE AtomFirstSelf(_, _)
\* the loop of (*atom.Feed).GetSourceURL from index i on
AtomFirstSelf(links, i) ==
    IF i > Len(links) THEN ""
    ELSE IF /\ links[i].rel # "" /\ links[i].rel = LinkRelSelf
            /\ links[i].type # "" /\ SeqContains(MimeTypesAtom, links[i].type)
         THEN links[i].href
         ELSE AtomFirstSelf(links, i + 1)

\* (*atom.Feed).GetSourceURL
AtomGetSourceURL(src) == AtomFirstSelf(src.links, 1)

\* (*atom.Feed).SetSourceURL
AtomSetSourceURL(src, url) ==
    [src EXCEPT !.links = Append(@, Link(url, LinkRelSelf, MimeTypesAtom[1]))]

\* (*jsonfeed.Feed).GetSourceURL
JSONGetSourceURL(src) == IF src.feedURL # Nil THEN src.feedURL ELSE ""

\* (*jsonfeed.Feed).SetSourceURL
JSONSetSourceURL(src, url) == [src EXCEPT !.feedURL = url]

\* the FeedSource interface's dynamic dispatch
GetSourceURL(src) ==
    CASE src.type = TypeRSS  -> RSSGetSourceURL(src)
      [] src.type = TypeAtom -> AtomGetSourceURL(src)
      [] OTHER               -> JSONGetSourceURL(src)

SetSourceURL(src, url) ==
    CASE src.type = TypeRSS  -> RSSSetSourceURL(src, url)
      [] src.type = TypeAtom -> AtomSetSourceURL(src, url)
      [] OTHER               -> JSONSetSourceURL(src, url)

\* SetImage of the three formats: each stores image.GetURL() in its own field
SetImage(src, imageURL) == [src EXCEPT !.image = imageURL]

\* GetItems of the three formats
GetItems(src) == src.items

-----------------------------------------------------------------------------
(* feeds.Feed: a FeedSource and its SourceType tag.                        *)

NilFeed == [nil |-> TRUE, SourceType |-> "", source |-> ZeroSource]

\* parseSource
parseSource(type) ==
    CASE type = TypeAtom -> TypeAtom
      [] type = TypeRSS  -> TypeRSS
      [] OTHER           -> ""

\* NewFeedFromSource
NewFeedFromSource(source) ==
    [nil |-> FALSE, SourceType |-> parseSource(source.type), source |-> source]

\* (*Feed).GetItems: each item carries the feed's tag
FeedGetItems(feed) ==
    [i \in 1..Len(GetItems(feed.source)) |->
        [id |-> GetItems(feed.source)[i], SourceType |-> feed.SourceType]]

-----------------------------------------------------------------------------
(* Documents.  A document is what the XML/JSON decoders make of a body:    *)
(* whether it parses, as what, and the fields the pipeline uses; `text` is *)
(* the part of the bytes the content sniffing looks at, `tokens` what the  *)
(* HTML tokenizer yields for it.                                           *)

Doc(text, format, wellformed, conformant, links, feedURL, items, tokens) ==
    [text |-> text, format |-> format, wellformed |-> wellformed,
     conformant |-> conformant, links |-> links, feedURL |-> feedURL,
     items |-> items, tokens |-> tokens]

\* json.Unmarshal / Decode[T]: the decoded object, or an error
Decode(type, doc) ==
    IF doc.wellformed /\ doc.format = type
    THEN [err |-> NoErr,
          source |-> [type |-> type,
                      links |-> IF type = TypeAtom THEN doc.links ELSE <<>>,
                      atomLink |-> IF type = TypeRSS /\ doc.links # <<>>
                                   THEN doc.links[Len(doc.links)] ELSE ZeroLink,
                      feedURL |-> IF type = TypeJSONFeed THEN doc.feedURL ELSE Nil,
                      image |-> "",
                      items |-> doc.items,
                      conformant |-> doc.conformant]]
    ELSE [err |-> NewErr("ErrDecode", "could not decode byte array"),
          source |-> ZeroSource]

\* feed.Validate(): the format's own Validate
Validate(feed) ==
    IF feed.source.conformant THEN NoErr
    ELSE NewErr("ErrValidation", "validation failed")

\* NewFeedFromBytes[T]
NewFeedFromBytes(type, doc) ==
    LET dec == Decode(type, doc) IN
    IF dec.err # NoErr
    THEN [feed |-> NilFeed, err |-> NewErr("ErrParseBytes", dec.err.msg)]
    ELSE LET feed == [nil |-> FALSE, SourceType |-> parseSource(type),
                      source |-> dec.source]
         IN  IF Validate(feed) # NoErr
             THEN [feed |-> NilFeed,
                   err |-> NewErr("ErrParseBytes", "feed is not valid")]
             ELSE [feed |-> feed, err |-> NoErr]

-----------------------------------------------------------------------------
(* Content-Type classification.                                            *)

RECURSIVE TrimSpace(_)
\* strings.TrimSpace
TrimSpace(s) ==
    IF s = "" THEN s
    ELSE IF HasPrefix(s, " ") THEN TrimSpace(SubSeq(s, 2, Len(s)))
    ELSE IF HasSuffix(s, " ") THEN TrimSpace(SubSeq(s, 1, Len(s) - 1))
    ELSE s

\* mime.ParseMediaType, for lower-case headers: the media type is what
\* precedes the first ";", trimmed; it must be a token or token/token; what
\* follows must be key=value parameters (a lone trailing ";" is tolerated)
ParseMediaType(v) ==
    LET semi == IndexFrom(v, ";", 1)
        base == TrimSpace(IF semi = 0 THEN v ELSE SubSeq(v, 1, semi - 1))
        rest == TrimSpace(IF semi = 0 THEN "" ELSE SubSeq(v, semi + 1, Len(v)))
    IN  IF base = "" \/ Contains(base, " ")
        THEN [mediatype |-> "", err |-> TRUE]
        ELSE IF rest # "" /\ ~Contains(rest, "=")
        THEN [mediatype |-> base, err |-> TRUE]
        ELSE [mediatype |-> base, err |-> FALSE]

\* isMimeType
isMimeType(content, mimeTypes) ==
    LET parsed == ParseMediaType(content) IN
    IF parsed.err THEN FALSE ELSE SeqContains(mimeTypes, parsed.mediatype)

-----------------------------------------------------------------------------
(* URLs: scheme://host/path or a relative reference (no query, fragment or *)
(* dot segments occur in the model's vocabulary).                          *)

\* url.Parse
UrlParse(s) ==
    LET sep == IndexFrom(s, "://", 1) IN
    IF HasPrefix(s, ":")
    THEN [err |-> TRUE, scheme |-> "", host |-> "", path |-> ""]
    ELSE IF sep = 0
    THEN [err |-> FALSE, scheme |-> "", host |-> "", path |-> s]
    ELSE LET slash == IndexFrom(s, "/", sep + 3) IN
         [err |-> FALSE,
          scheme |-> SubSeq(s, 1, sep - 1),
          host |-> IF slash = 0 THEN SubSeq(s, sep + 3, Len(s))
                   ELSE SubSeq(s, sep + 3, slash - 1),
          path |-> IF slash = 0 THEN "" ELSE SubSeq(s, slash, Len(s))]

\* (*url.URL).IsAbs
IsAbs(u) == u.scheme # ""

\* (*url.URL).String
UrlString(u) == IF IsAbs(u) THEN u.scheme \o "://" \o u.host \o u.path ELSE u.path

\* url.JoinPath("/", p)
JoinRoot(p) == IF HasPrefix(p, "/") THEN p ELSE "/" \o p

-----------------------------------------------------------------------------
(* HTML feed discovery.  A token is what html.Tokenizer yields: its type,  *)
(* its tag name and its attributes in document order.                      *)

Attr(key, val) == [key |-> key, val |-> val]

Token(tt, data, attr) == [tt |-> tt, data |-> data, attr |-> attr]

\* slices.IndexFunc(tkn.Attr, pred), as a 0-based index; -1 if none;
\* `matches` is pred applied to each attribute in turn
FirstAttr(matches) ==
    LET hits == {i \in 1..Len(matches) : matches[i]}
    IN  IF hits = {} THEN -1 ELSE (CHOOSE i \in hits : \A j \in hits : i <= j) - 1

\* the rel/type rule of the self-closing <link> case
LinkIsAlternateFeed(tkn) ==
    /\ \E i \in 1..Len(tkn.attr) : tkn.attr[i].key = "rel" /\ tkn.attr[i].val = "alternate"
    /\ \E i \in 1..Len(tkn.attr) :
          tkn.attr[i].key = "type" /\ SeqContains(MimeTypesFeed, tkn.attr[i].val)

\* the href rule of the self-closing <link> case
LinkHrefIsFeed(tkn) ==
    \E i \in 1..Len(tkn.attr) :
        tkn.attr[i].key = "href" /\ SeqContains(<<"feed", "rss", "atom">>, tkn.attr[i].val)

IsHref(a) == a.key = "href"

IsFeedHref(a) == a.key = "href" /\ HasSuffix(a.val, "feed")

\* what one token contributes: "skip" (continue), "panic" (index out of
\* range), "error" (url.Parse failed) or "url" with the value to parse
TokenOutcome(tkn) ==
    IF tkn.tt = "SelfClosingTag"
    THEN IF tkn.data # "link" THEN [kind |-> "skip", val |-> ""]
         ELSE IF ~(LinkIsAlternateFeed(tkn) \/ LinkHrefIsFeed(tkn))
         THEN [kind |-> "skip", val |-> ""]
         ELSE LET idx == FirstAttr([i \in 1..Len(tkn.attr) |-> IsHref(tkn.attr[i])]) IN
              IF idx = 0 THEN [kind |-> "skip", val |-> ""]
              ELSE IF idx < 0 THEN [kind |-> "panic", val |-> ""]
              ELSE [kind |-> "url", val |-> tkn.attr[idx + 1].val]
    ELSE IF tkn.tt = "StartTag"
    THEN IF tkn.data # "a" THEN [kind |-> "skip", val |-> ""]
         ELSE LET idx == FirstAttr([i \in 1..Len(tkn.attr) |-> IsFeedHref(tkn.attr[i])]) IN
              IF idx = -1 THEN [kind |-> "skip", val |-> ""]
              ELSE [kind |-> "url", val |-> tkn.attr[idx + 1].val]
    ELSE [kind |-> "skip", val |-> ""]

RECURSIVE DiscoverFrom(_, _, _)
\* the token loop of discoverFeedURL from token i on
DiscoverFrom(pageURL, tokens, i) ==
    IF i > Len(tokens)
    THEN [kind |-> "error", url |-> ""]           \* html.ErrorToken: io.EOF
    ELSE LET out == TokenOutcome(tokens[i]) IN
         CASE out.kind = "skip"  -> DiscoverFrom(pageURL, tokens, i + 1)
           [] out.kind = "panic" -> [kind |-> "panic", url |-> ""]
           [] OTHER ->
                LET feedURL == UrlParse(out.val) IN
                IF feedURL.err THEN [kind |-> "error", url |-> out.val]
                ELSE IF ~IsAbs(feedURL)
                THEN [kind |-> "ok",
                      url |-> UrlString([pageURL EXCEPT !.path = JoinRoot(feedURL.path)])]
                ELSE [kind |-> "ok", url |-> UrlString(feedURL)]

\* discoverFeedURL
discoverFeedURL(path, doc) ==
    LET pageURL == UrlParse(path) IN
    IF pageURL.err THEN [kind |-> "error", url |-> ""]
    ELSE DiscoverFrom(pageURL, doc.tokens, 1)

-----------------------------------------------------------------------------
(* The web the library fetches from: what a GET of each URL yields.        *)

Resp(transport, status, ctype, body) ==
    [transport |-> transport, status |-> status, ctype |-> ctype, body |-> body]

NoDoc == Doc("", "Other", FALSE, FALSE, <<>>, Nil, <<>>, <<>>)

RSSDoc(text, wellformed, conformant, links) ==
    Doc(text, TypeRSS, wellformed, conformant, links, Nil, <<"item-1", "item-2">>, <<>>)

AtomDoc(text, wellformed, conformant, links) ==
    Doc(text, TypeAtom, wellformed, conformant, links, Nil, <<"entry-1">>, <<>>)

JSONDoc(conformant, feedURL) ==
    Doc("{ version: https://jsonfeed.org/version/1.1", TypeJSONFeed, TRUE, conformant,
        <<>>, feedURL, <<"post-1">>, <<>>)

HTMLDoc(tokens) ==
    Doc("<html><head>", "HTML", TRUE, FALSE, <<>>, Nil, <<>>, tokens)

\* <link rel="alternate" type="application/rss+xml" href=... />
AltLink(href) ==
    Token("SelfClosingTag", "link",
          <<Attr("rel", "alternate"), Attr("type", "application/rss+xml"), Attr("href", href)>>)

Meta == Token("SelfClosingTag", "meta", <<Attr("charset", "utf-8")>>)

Site == "https://x.example"

Web ==
       (Site \o "/down"    :> Resp(FALSE, 0, "", NoDoc))
    @@ (Site \o "/500"     :> Resp(TRUE, 500, "text/html", HTMLDoc(<<Meta>>)))
    @@ (Site \o "/noctype" :> Resp(TRUE, 200, "",
            RSSDoc("<rss version=2.0>", TRUE, TRUE, <<>>)))
    @@ (Site \o "/rss"     :> Resp(TRUE, 200, "application/rss+xml; charset=utf-8",
            RSSDoc("<rss version=2.0>", TRUE, TRUE, <<>>)))
    @@ (Site \o "/rdf"     :> Resp(TRUE, 200, "application/rdf+xml",
            RSSDoc("<rss version=2.0>", TRUE, TRUE,
                   <<Link("https://old.example/rss", LinkRelSelf, "application/rss+xml")>>)))
    @@ (Site \o "/atom"    :> Resp(TRUE, 200, "application/atom+xml",
            AtomDoc("<feed xmlns=http://www.w3.org/2005/Atom>", TRUE, TRUE,
                    <<Link("https://x.example/", "alternate", "text/html")>>)))
    @@ (Site \o "/moved"   :> Resp(TRUE, 200, "application/atom+xml",
            AtomDoc("<feed xmlns=http://www.w3.org/2005/Atom>", TRUE, TRUE,
                    <<Link("https://old.example/atom", LinkRelSelf, "application/atom+xml")>>)))
    @@ (Site \o "/json"    :> Resp(TRUE, 200, "application/feed+json",
            JSONDoc(TRUE, Site \o "/json")))
    @@ (Site \o "/api"     :> Resp(TRUE, 200, "application/json; charset=utf-8",
            JSONDoc(TRUE, "https://old.example/json")))
    @@ (Site \o "/xmlrss"  :> Resp(TRUE, 200, "text/xml",
            RSSDoc("<?xml version=1.0?><rss version=2.0>", TRUE, TRUE, <<>>)))
    @@ (Site \o "/xmlatom" :> Resp(TRUE, 200, "application/xml; charset=utf-8",
            AtomDoc("<?xml version=1.0?><feed>", TRUE, TRUE, <<>>)))
    @@ (Site \o "/sitemap" :> Resp(TRUE, 200, "application/xml",
            Doc("<?xml version=1.0?><urlset>", "Other", TRUE, FALSE, <<>>, Nil, <<>>, <<>>)))
    @@ (Site \o "/badrss"  :> Resp(TRUE, 200, "application/rss+xml",
            RSSDoc("<rss version=2.0><channel", FALSE, FALSE, <<>>)))
    @@ (Site \o "/badatom" :> Resp(TRUE, 200, "application/atom+xml",
            AtomDoc("<feed>", TRUE, FALSE, <<>>)))
    @@ (Site \o "/xmlbad"  :> Resp(TRUE, 200, "text/xml",
            AtomDoc("<feed>", TRUE, FALSE, <<>>)))
    @@ (Site \o "/png"     :> Resp(TRUE, 200, "image/png", NoDoc))
    @@ (Site \o "/blog"    :> Resp(TRUE, 200, "text/html; charset=utf-8",
            HTMLDoc(<<Meta, AltLink("/rss")>>)))
    @@ (Site \o "/news"    :> Resp(TRUE, 200, "text/html",
            HTMLDoc(<<AltLink("https://x.example/moved")>>)))
    @@ (Site \o "/loop"    :> Resp(TRUE, 200, "text/html",
            HTMLDoc(<<AltLink("/loop")>>)))
    @@ (Site \o "/ping"    :> Resp(TRUE, 200, "text/html",
            HTMLDoc(<<AltLink("/pong")>>)))
    @@ (Site \o "/pong"    :> Resp(TRUE, 200, "application/xhtml+xml",
            HTMLDoc(<<AltLink("ping")>>)))
    @@ (Site \o "/plain"   :> Resp(TRUE, 200, "text/html", HTMLDoc(<<Meta>>)))
    @@ (Site \o "/gone"    :> Resp(TRUE, 200, "text/html",
            HTMLDoc(<<Token("StartTag", "a", <<Attr("href", "/about")>>),
                      AltLink("/500")>>)))
    @@ (Site \o "/dead"    :> Resp(TRUE, 200, "text/html",
            HTMLDoc(<<Token("StartTag", "a",
                            <<Attr("class", "x"), Attr("href", "/down/feed")>>)>>)))

URLs == DOMAIN Web

\* client.R().SetContext(ctx).Get(url); a URL nobody serves fails in transport
Get(url) == IF url \in URLs THEN Web[url] ELSE Resp(FALSE, 0, "", NoDoc)

\* (*resty.Response).IsError
IsError(resp) == resp.status > 399

-----------------------------------------------------------------------------
(* parseFeedURL.  One activation of the function either returns a          *)
(* FeedResult, calls itself on a discovered URL, or panics.  `events` are  *)
(* the stages the activation went through.                                 *)

FeedResult(url, feed, err) == [URL |-> url, Feed |-> feed, Err |-> err]

NoResult == FeedResult("", NilFeed, NoErr)

Returns(result, events) ==
    [kind |-> "return", result |-> result, next |-> "", events |-> events]

\* a variant of the recursive call that reports the page's own classification
\* instead of the outcome for the discovered URL
RecursesAsUnsupported(next, events) ==
    [kind |-> "return", result |-> [URL |-> "", Feed |-> NilFeed,
                                    Err |-> [is |-> {"ErrParseURL"},
                                             msg |-> "unsupported feed media type"]],
     next |-> "", events |-> events]

Recurses(next, events) ==
    [kind |-> "recurse", result |-> NoResult, next |-> next, events |-> events]

Panics(events) ==
    [kind |-> "panic", result |-> NoResult, next |-> "", events |-> events]

\* errors.Is(err, &validator.InvalidValidationError{}): the target is a fresh
\* pointer and the type has no Is method, so no error matches it
IsInvalidValidationError(err) == FALSE

\* the result of a failed transport call
TransportFailure(url) ==
    FeedResult(url, NilFeed, NewErr("ErrParseURL", "transport"))

\* the result of a response with an error status
StatusFailure(url) ==
    FeedResult("", NilFeed, NewErr("ErrParseURL", "status"))

\* the result of a response with no Content-Type header
MissingContentType(url) ==
    FeedResult(url, NilFeed, NewErr("ErrParseURL", "missing Content-Type header"))

\* the default case of the switch
UnsupportedMediaType == NewErr("ErrParseURL", "unsupported feed media type")

\* a variant of the end of parseFeedURL that returns the nil feed it was left
\* with instead of dereferencing it
FinishNilGuard(url, feed, err, events) ==
    IF err # NoErr THEN Returns(FeedResult(url, NilFeed, err), events)
    ELSE IF feed.nil THEN Returns(FeedResult(url, NilFeed, NoErr), events)
    ELSE IF GetSourceURL(feed.source) = "" \/ GetSourceURL(feed.source) # url
    THEN Returns(FeedResult(url, [feed EXCEPT !.source = SetSourceURL(@, url)], NoErr),
                 events \cup {"setsource"})
    ELSE Returns(FeedResult(url, feed, NoErr), events)

\* the end of parseFeedURL, after the switch left (feed, err)
Finish(url, feed, err, events) ==
    IF err # NoErr THEN Returns(FeedResult(url, NilFeed, err), events)
    ELSE IF feed.nil THEN Panics(events)          \* feed.GetSourceURL() on a nil *Feed
    ELSE IF GetSourceURL(feed.source) = "" \/ GetSourceURL(feed.source) # url
    THEN Returns(FeedResult(url, [feed EXCEPT !.source = SetSourceURL(@, url)], NoErr),
                 events \cup {"setsource"})
    ELSE Returns(FeedResult(url, feed, NoErr), events)

\* the MimeTypesIndeterminate case: sniff the body for <feed, then <rss
Sniff(url, body, events) ==
    IF Contains(body.text, "<feed")
    THEN LET r == NewFeedFromBytes(TypeAtom, body) IN
         IF r.err # NoErr /\ IsInvalidValidationError(r.err)
         THEN Returns(FeedResult("", NilFeed, NewErr("", "could not parse as atom")),
                      events \cup {"sniff", "decode"})
         ELSE Finish(url, r.feed, r.err, events \cup {"sniff", "decode"})
    ELSE IF Contains(body.text, "<rss")
    THEN LET r == NewFeedFromBytes(TypeRSS, body) IN
         IF r.err # NoErr /\ IsInvalidValidationError(r.err)
         THEN Returns(FeedResult("", NilFeed, NewErr("", "could not parse as rss")),
                      events \cup {"sniff", "decode"})
         ELSE Finish(url, r.feed, r.err, events \cup {"sniff", "decode"})
    ELSE Finish(url, NilFeed, NoErr, events \cup {"sniff"})

\* the MimeTypesHTML case
Discover(url, body, events) ==
    LET d == discoverFeedURL(url, body) IN
    CASE d.kind = "panic" -> Panics(events \cup {"discover"})
      [] d.kind = "ok" /\ d.url # "" -> Recurses(d.url, events \cup {"discover"})
      [] OTHER -> Finish(url, NilFeed, UnsupportedMediaType, events \cup {"discover"})

\* the switch on the Content-Type
Classify(url, content, body, events) ==
    CASE isMimeType(content, MimeTypesRSS) ->
            LET r == NewFeedFromBytes(TypeRSS, body)
            IN  Finish(url, r.feed, r.err, events \cup {"decode"})
      [] isMimeType(content, MimeTypesAtom) ->
            LET r == NewFeedFromBytes(TypeAtom, body)
            IN  Finish(url, r.feed, r.err, events \cup {"decode"})
      [] isMimeType(content, MimeTypesIndeterminate) -> Sniff(url, body, events)
      [] isMimeType(content, MimeTypesJSONFeed) ->
            LET r == NewFeedFromBytes(TypeJSONFeed, body)
            IN  Finish(url, r.feed, r.err, events \cup {"decode"})
      [] isMimeType(content, MimeTypesHTML) -> Discover(url, body, events)
      [] OTHER -> Finish(url, NilFeed, UnsupportedMediaType, events)

\* a variant of parseFeedURL that does not look at the response's status
parseFeedURLIgnoringStatus(url) ==
    LET resp == Get(url) IN
    IF ~resp.transport THEN Returns(TransportFailure(url), {"fetch"})
    ELSE IF resp.ctype = "" THEN Returns(MissingContentType(url), {"fetch", "header"})
    ELSE Classify(url, resp.ctype, resp.body, {"fetch", "header", "classify"})

\* one activation of parseFeedURL
parseFeedURL(url) ==
    LET resp == Get(url) IN
    IF ~resp.transport THEN Returns(TransportFailure(url), {"fetch"})
    ELSE IF IsError(resp) THEN Returns(StatusFailure(url), {"fetch"})
    ELSE IF resp.ctype = "" THEN Returns(MissingContentType(url), {"fetch", "header"})
    ELSE Classify(url, resp.ctype, resp.body, {"fetch", "header", "classify"})

\* the URLs a call can come to fetch: those the web serves and those its
\* pages lead to
Fetchable ==
    LET hops == {parseFeedURL(u) : u \in URLs}
    IN  URLs \cup {h.next : h \in {g \in hops : g.kind = "recurse"}}

\* parseFeedURL's activations, tabulated by URL
Activations == [u \in Fetchable |-> parseFeedURL(u)]

-----------------------------------------------------------------------------
(* The single caller.  A behaviour is one construction of a Feed           *)
(* (NewFeedFromURL, NewFeedFromBytes or NewFeedFromSource) followed by any *)
(* number of SetSourceURL and SetImage calls on it.                        *)

Min(a, b) == IF a < b THEN a ELSE b

IdleCall == [pc |-> "idle", url |-> "", cur |-> "", fetches |-> 0, events |-> {},
             result |-> NoResult]

NoLast == [op |-> "none", type |-> "", doc |-> NoDoc, feed |-> NilFeed, err |-> NoErr]

\* the bodies the web serves, as arguments of NewFeedFromBytes
Docs == {Web[u].body : u \in URLs}

\* decoded format objects, as arguments of NewFeedFromSource
Sources ==
    {Decode(p[1], p[2]).source :
        p \in {q \in Formats \X Docs : Decode(q[1], q[2]).err = NoErr}}

\* arguments of SetSourceURL and SetImage
SourceURLArgs == {Site \o "/rss", "https://old.example/atom"}
ImageArgs     == {"https://x.example/hero.png", "/favicon.ico"}

Pristine == call.pc = "idle" /\ last.op = "none" /\ obj.nil

ApiInit == call = IdleCall /\ obj = NilFeed /\ last = NoLast

BatchIdle ==
    /\ urls = <<>> /\ mode = "feeds" /\ launcher = [pc |-> "exited", i |-> 1]
    /\ wg = 0 /\ workers = <<>> /\ closed = TRUE /\ results = <<>>
    /\ collector = "returned" /\ crashed = FALSE

\* NewFeedFromURL(ctx, url) is called: parseFeedURL's first activation begins
CallNewFeedFromURL ==
    /\ Pristine
    /\ \E u \in URLs : call' = [IdleCall EXCEPT !.pc = "running", !.url = u, !.cur = u]
    /\ UNCHANGED <<obj, last>>
    /\ UNCHANGED <<batchVars, auxVars>>

\* what the caller sees of an activation `hop` of parseFeedURL, its n-th fetch:
\* NewFeedFromURL returns result.Feed, result.Err; a recursive call goes on
\* with the discovered URL; a panic ends the caller
Outcome(hop, n) ==
    CASE hop.kind = "return" ->
            /\ call' = [call EXCEPT !.pc = "returned", !.fetches = n,
                                    !.events = hop.events, !.result = hop.result]
            /\ obj' = hop.result.Feed
            /\ last' = [NoLast EXCEPT !.op = "NewFeedFromURL",
                                      !.feed = hop.result.Feed,
                                      !.err = hop.result.Err]
      [] hop.kind = "recurse" ->
            /\ call' = [call EXCEPT !.cur = hop.next, !.fetches = n,
                                    !.events = hop.events]
            /\ UNCHANGED <<obj, last>>
      [] OTHER ->
            /\ call' = [call EXCEPT !.pc = "panicked", !.fetches = n,
                                    !.events = hop.events]
            /\ UNCHANGED <<obj, last>>

\* one activation of parseFeedURL runs: it returns, recurses or panics
Activation ==
    /\ call.pc = "running"
    /\ Outcome(Activations[call.cur], Min(call.fetches + 1, MaxFetches))
    /\ UNCHANGED <<batchVars, auxVars>>

\* NewFeedFromBytes[T](data)
CallNewFeedFromBytes ==
    /\ Pristine
    /\ \E t \in Formats, d \in Docs :
          LET r == NewFeedFromBytes(t, d) IN
          /\ last' = [op |-> "NewFeedFromBytes", type |-> t, doc |-> d,
                      feed |-> r.feed, err |-> r.err]
          /\ obj' = r.feed
    /\ UNCHANGED call
    /\ UNCHANGED <<batchVars, auxVars>>

\* NewFeedFromSource(source)
CallNewFeedFromSource ==
    /\ Pristine
    /\ \E src \in Sources :
          /\ obj' = NewFeedFromSource(src)
          /\ last' = [NoLast EXCEPT !.op = "NewFeedFromSource", !.type = src.type,
                                    !.feed = NewFeedFromSource(src)]
    /\ UNCHANGED call
    /\ UNCHANGED <<batchVars, auxVars>>

\* feed.SetSourceURL(url) on the Feed the caller holds
CallSetSourceURL ==
    /\ ~obj.nil
    /\ Len(obj.source.links) < MaxLinks
    /\ \E u \in SourceURLArgs : obj' = [obj EXCEPT !.source = SetSourceURL(@, u)]
    /\ UNCHANGED <<call, last>>
    /\ UNCHANGED <<batchVars, auxVars>>

\* feed.SetImage(image) on the Feed the caller holds
CallSetImage ==
    /\ ~obj.nil
    /\ \E i \in ImageArgs : obj' = [obj EXCEPT !.source = SetImage(@, i)]
    /\ UNCHANGED <<call, last>>
    /\ UNCHANGED <<batchVars, auxVars>>

Init == ApiInit /\ BatchIdle /\ AuxIdle

Next ==
    \/ CallNewFeedFromURL
    \/ Activation
    \/ CallNewFeedFromBytes
    \/ CallNewFeedFromSource
    \/ CallSetSourceURL
    \/ CallSetImage

Spec == Init /\ [][Next]_vars

\* an activation that has begun runs: each fetch returns and the rest is
\* straight-line code
FairSpec == Spec /\ WF_vars(Activation)

-----------------------------------------------------------------------------
(* The batch calls NewFeedsFromURLs and NewItemsFromURLs.  The caller      *)
(* starts a launcher goroutine and ranges over workerCh; the launcher      *)
(* starts one worker per URL, waits for the WaitGroup and closes the       *)
(* channel; a worker runs parseFeedURL, sends its result on the unbuffered *)
(* channel and calls wg.Done.  A panic in any goroutine ends the process.  *)

\* the URLs batch calls are given
BatchURLs == {Site \o "/down", Site \o "/500", Site \o "/rss", Site \o "/moved",
              Site \o "/sitemap", Site \o "/blog", Site \o "/loop"}

RECURSIVE SeqsUpTo(_, _)
\* the sequences over S of length at most n
SeqsUpTo(S, n) ==
    IF n = 0 THEN {<<>>}
    ELSE LET shorter == SeqsUpTo(S, n - 1)
         IN  shorter \cup {Append(q, x) : q \in shorter, x \in S}

IdleWorker == [pc |-> "unborn", url |-> "", cur |-> "", fetches |-> 0,
               result |-> NoResult, items |-> <<>>]

\* what a worker puts on the channel: the FeedResult itself, or the
\* FeedItemsResult NewItemsFromURLs builds from it
Message(m, url, result) ==
    IF m = "feeds"
    THEN [URL |-> result.URL, Feed |-> result.Feed, Items |-> <<>>, Err |-> result.Err]
    ELSE IF result.Err # NoErr
    THEN [URL |-> url, Feed |-> NilFeed, Items |-> <<>>, Err |-> result.Err]
    ELSE [URL |-> url, Feed |-> NilFeed, Items |-> FeedGetItems(result.Feed), Err |-> NoErr]

\* a variant of wg.Wait() that does not wait for the counter
WaitReturnsAtOnce(counter) == counter \in Nat

\* wg.Wait() returns when the counter is zero
WaitReturns(counter) == counter = 0

BatchInit ==
    /\ ApiInit
    /\ AuxIdle
    /\ urls \in SeqsUpTo(BatchURLs, MaxUrls)
    /\ mode \in {"feeds", "items"}
    /\ launcher = [pc |-> "spawning", i |-> 1]
    /\ wg = 0
    /\ workers = [w \in 1..Len(urls) |-> IdleWorker]
    /\ closed = FALSE
    /\ results = <<>>
    /\ collector = "ranging"
    /\ crashed = FALSE

\* the launcher's loop body: wg.Add(1); go func(url)
Spawn ==
    /\ ~crashed
    /\ launcher.pc = "spawning"
    /\ launcher.i <= Len(urls)
    /\ wg' = wg + 1
    /\ workers' = [workers EXCEPT ![launcher.i] =
                      [IdleWorker EXCEPT !.pc = "running", !.url = urls[launcher.i],
                                         !.cur = urls[launcher.i]]]
    /\ launcher' = [launcher EXCEPT !.i = @ + 1]
    /\ UNCHANGED <<urls, mode, closed, results, collector, crashed>>
    /\ UNCHANGED <<apiVars, auxVars>>

\* the launcher's wg.Wait() returns
Wait ==
    /\ ~crashed
    /\ launcher.pc = "spawning"
    /\ launcher.i > Len(urls)
    /\ WaitReturns(wg)
    /\ launcher' = [launcher EXCEPT !.pc = "closing"]
    /\ UNCHANGED <<urls, mode, wg, workers, closed, results, collector, crashed>>
    /\ UNCHANGED <<apiVars, auxVars>>

\* the launcher's deferred close(workerCh); closing a closed channel panics
Close ==
    /\ ~crashed
    /\ launcher.pc = "closing"
    /\ launcher' = [launcher EXCEPT !.pc = "exited"]
    /\ IF closed THEN crashed' = TRUE /\ closed' = closed
                 ELSE closed' = TRUE /\ crashed' = crashed
    /\ UNCHANGED <<urls, mode, wg, workers, results, collector>>
    /\ UNCHANGED <<apiVars, auxVars>>

\* what worker w does with an activation `hop` of parseFeedURL, its n-th
\* fetch: a result goes to the send, a recursive call goes on with the
\* discovered URL, a panic in any goroutine ends the process
WorkerOutcome(w, hop, n) ==
    CASE hop.kind = "return" ->
            /\ workers' = [workers EXCEPT ![w].pc = "sending", ![w].fetches = n,
                                          ![w].result = hop.result]
            /\ crashed' = crashed
      [] hop.kind = "recurse" ->
            /\ workers' = [workers EXCEPT ![w].cur = hop.next, ![w].fetches = n]
            /\ crashed' = crashed
      [] OTHER ->
            /\ workers' = [workers EXCEPT ![w].pc = "panicked", ![w].fetches = n]
            /\ crashed' = TRUE

\* one activation of parseFeedURL in worker w
Work(w) ==
    /\ ~crashed
    /\ workers[w].pc = "running"
    /\ WorkerOutcome(w, Activations[workers[w].cur],
                     Min(workers[w].fetches + 1, MaxFetches))
    /\ UNCHANGED <<urls, mode, launcher, wg, closed, results, collector>>
    /\ UNCHANGED <<apiVars, auxVars>>

\* worker w's send meets the collector's receive, which appends the value;
\* a send on a closed channel panics
Send(w) ==
    /\ ~crashed
    /\ workers[w].pc = "sending"
    /\ IF closed
       THEN /\ crashed' = TRUE
            /\ workers' = [workers EXCEPT ![w].pc = "panicked"]
            /\ UNCHANGED results
       ELSE /\ collector = "ranging"
            /\ results' = Append(results,
                  [from |-> w, val |-> Message(mode, workers[w].url, workers[w].result)])
            /\ workers' = [workers EXCEPT ![w].pc = "sent"]
            /\ crashed' = crashed
    /\ UNCHANGED <<urls, mode, launcher, wg, closed, collector>>
    /\ UNCHANGED <<apiVars, auxVars>>

\* worker w's deferred wg.Done()
Done(w) ==
    /\ ~crashed
    /\ workers[w].pc = "sent"
    /\ wg' = wg - 1
    /\ workers' = [workers EXCEPT ![w].pc = "done"]
    /\ UNCHANGED <<urls, mode, launcher, closed, results, collector, crashed>>
    /\ UNCHANGED <<apiVars, auxVars>>

\* the collector's range loop ends on the closed channel: the call returns
Return ==
    /\ ~crashed
    /\ collector = "ranging"
    /\ closed
    /\ collector' = "returned"
    /\ UNCHANGED <<urls, mode, launcher, wg, workers, closed, results, crashed>>
    /\ UNCHANGED <<apiVars, auxVars>>

Working == \E w \in 1..Len(urls) : Work(w)
Sending == \E w \in 1..Len(urls) : Send(w)
Finishing == \E w \in 1..Len(urls) : Done(w)

BatchNext ==
    \/ Spawn
    \/ Wait
    \/ Close
    \/ Working
    \/ Sending
    \/ Finishing
    \/ Return

BatchSpec == BatchInit /\ [][BatchNext]_vars

-----------------------------------------------------------------------------
(* One HTTP request against the caller's context.  Time is in seconds from *)
(* the moment the caller made its context.  A request is issued by         *)
(* parseFeedURL (client.R().SetContext(ctx).Get(url), on the client of     *)
(* newWebClient) or by FindFeedImage (readability.FromURL(url, timeout));  *)
(* it ends with the server's response, with the context's end if it is     *)
(* bound to the context, or with its own timeout if it has one.            *)

\* DefaultRequestTimeout, in seconds
DefaultRequestTimeout == 30

\* newWebClient: resty.New().SetHeader(...); no SetTimeout, and a resty
\* client's timeout is zero (none) until it is set
newWebClient == [userAgent |-> "go-syndication", timeout |-> 0]

\* a context: its deadline (0 for none), whether and when it was cancelled,
\* and the clock
Context(deadline) == [deadline |-> deadline, cancelled |-> FALSE, cancelledAt |-> 0, now |-> 0]

\* ctx.Deadline()
HasDeadline(c) == c.deadline > 0

\* ctx.Err() # nil: the context was cancelled or its deadline has passed
ContextDone(c) == c.cancelled \/ (HasDeadline(c) /\ c.now >= c.deadline)

NoRequest == [kind |-> "none", pc |-> "none", bound |-> FALSE, timeout |-> 0,
              started |-> 0, afterCancel |-> FALSE, outcome |-> ""]

\* a request issued at the current instant; one bound to a context that is
\* already done fails at once
Issue(kind, bound, timeout) ==
    [kind |-> kind, bound |-> bound, timeout |-> timeout, started |-> ctx.now,
     afterCancel |-> ctx.cancelled,
     pc |-> IF bound /\ ContextDone(ctx) THEN "done" ELSE "inflight",
     outcome |-> IF bound /\ ContextDone(ctx) THEN "canceled" ELSE ""]

\* the timeout FindFeedImage hands to discoverFeedImage
FindFeedImageTimeout(c) ==
    IF ~HasDeadline(c) THEN DefaultRequestTimeout ELSE c.deadline - c.now

\* a request's own timeout has expired; a timeout that is not positive is none
TimeoutDue(r, c) == r.timeout > 0 /\ c.now - r.started >= r.timeout

\* a request bound to the context ends when the context does
AbortDue(r, c) == r.bound /\ ContextDone(c)

NetInit ==
    /\ ApiInit /\ BatchIdle
    /\ arg = Unused /\ ret = Unused
    /\ ctx \in {Context(d) : d \in 0..MaxDeadline}
    /\ req = NoRequest

\* parseFeedURL issues its GET
CallParseFeedURL ==
    /\ req.pc = "none"
    /\ req' = Issue("feed", TRUE, newWebClient.timeout)
    /\ UNCHANGED <<ctx, apiVars, batchVars, arg, ret>>

\* the page fetched was HTML and named a feed: parseFeedURL calls itself and
\* issues the next GET with the same ctx and client
Refetch ==
    /\ req.pc = "done" /\ req.kind = "feed" /\ req.outcome = "response"
    /\ req' = Issue("refetch", TRUE, newWebClient.timeout)
    /\ UNCHANGED <<ctx, apiVars, batchVars, arg, ret>>

\* FindFeedImage fetches the feed's page
CallFindFeedImage ==
    /\ req.pc = "none"
    /\ req' = Issue("image", FALSE, FindFeedImageTimeout(ctx))
    /\ UNCHANGED <<ctx, apiVars, batchVars, arg, ret>>

\* the caller cancels its context
Cancel ==
    /\ ~ctx.cancelled
    /\ ctx' = [ctx EXCEPT !.cancelled = TRUE, !.cancelledAt = ctx.now]
    /\ UNCHANGED <<req, apiVars, batchVars, arg, ret>>

\* a second passes, unless something is due at this instant
Tick ==
    /\ ctx.now < MaxClock
    /\ ~(req.pc = "inflight" /\ (TimeoutDue(req, ctx) \/ AbortDue(req, ctx)))
    /\ ctx' = [ctx EXCEPT !.now = @ + 1]
    /\ UNCHANGED <<req, apiVars, batchVars, arg, ret>>

\* the server answers
Respond ==
    /\ req.pc = "inflight"
    /\ req' = [req EXCEPT !.pc = "done", !.outcome = "response"]
    /\ UNCHANGED <<ctx, apiVars, batchVars, arg, ret>>

\* the request ends with the context
Abort ==
    /\ req.pc = "inflight" /\ AbortDue(req, ctx)
    /\ req' = [req EXCEPT !.pc = "done", !.outcome = "canceled"]
    /\ UNCHANGED <<ctx, apiVars, batchVars, arg, ret>>

\* the request ends with its own timeout
TimeOut ==
    /\ req.pc = "inflight" /\ TimeoutDue(req, ctx)
    /\ req' = [req EXCEPT !.pc = "done", !.outcome = "timeout"]
    /\ UNCHANGED <<ctx, apiVars, batchVars, arg, ret>>

NetNext ==
    \/ CallParseFeedURL
    \/ Refetch
    \/ CallFindFeedImage
    \/ Cancel
    \/ Tick
    \/ Respond
    \/ Abort
    \/ TimeOut

NetSpec == NetInit /\ [][NetNext]_vars

-----------------------------------------------------------------------------
(* The Content-Type switch of parseFeedURL, applied to a response's        *)
(* Content-Type header and body.                                           *)

\* media types a server may announce
MediaTypes ==
    {"application/rss+xml", "application/rdf+xml", "application/atom+xml",
     "application/xml", "text/xml", "application/feed+json", "application/json",
     "text/html", "application/xhtml+xml", "image/png", "text/plain"}

\* what may follow the media type in the header
HeaderParams == {"", "; charset=utf-8", ";charset=UTF-8", " ; charset=utf-8 ", ";", "; charset"}

ContentTypes == {t \o p : t \in MediaTypes, p \in HeaderParams}

\* an RSS document that uses the FeedBurner namespace
BurnerDoc ==
    RSSDoc("<rss version=2.0><channel><feedburner:info uri=x />", TRUE, TRUE, <<>>)

Bodies ==
    {RSSDoc("<rss version=2.0>", TRUE, TRUE, <<>>),
     AtomDoc("<feed xmlns=http://www.w3.org/2005/Atom>", TRUE, TRUE, <<>>),
     JSONDoc(TRUE, Nil),
     HTMLDoc(<<Meta, AltLink("/rss")>>),
     HTMLDoc(<<Meta>>),
     BurnerDoc}

\* the URL the response came from
FetchedURL == Site \o "/index"

NoReturn == [done |-> FALSE, hop |-> Panics({})]

ClassifyInit ==
    /\ ApiInit /\ BatchIdle
    /\ ctx = Unused /\ req = Unused
    /\ arg \in [content : ContentTypes, body : Bodies]
    /\ ret = NoReturn

\* parseFeedURL from the switch on: the response has arrived with a
\* Content-Type header
ApplyClassify ==
    /\ ~ret.done
    /\ ret' = [done |-> TRUE,
               hop |-> Classify(FetchedURL, arg.content, arg.body,
                                {"fetch", "header", "classify"})]
    /\ UNCHANGED <<arg, ctx, req, apiVars, batchVars>>

ClassifyNext == ApplyClassify

ClassifySpec == ClassifyInit /\ [][ClassifyNext]_vars

-----------------------------------------------------------------------------
(* discoverFeedURL applied to the URL of a page and its HTML.              *)

\* <link href=... rel="alternate" type="application/atom+xml"/>: as AltLink,
\* with the href written first
HrefFirstLink(href) ==
    Token("SelfClosingTag", "link",
          <<Attr("href", href), Attr("rel", "alternate"), Attr("type", "application/atom+xml")>>)

\* <link rel=... href=... />
RelLink(rel, href) ==
    Token("SelfClosingTag", "link", <<Attr("rel", rel), Attr("href", href)>>)

\* <a class="nav" href=...>
Anchor(href) == Token("StartTag", "a", <<Attr("class", "nav"), Attr("href", href)>>)

\* the elements a page is made of
PageTokens ==
    {Meta,
     AltLink("/rss"),
     HrefFirstLink("/first.xml"),
     RelLink("stylesheet", "/style.css"),
     RelLink("home", "/blog/feed"),
     RelLink("home", "feed"),
     Token("SelfClosingTag", "link",
           <<Attr("rel", "alternate"), Attr("type", "application/rss+xml")>>),
     Anchor("/about"),
     Anchor("https://feeds.example/x/feed")}

Pages == {HTMLDoc(t) : t \in SeqsUpTo(PageTokens, MaxTokens)}

DiscoveryInit ==
    /\ ApiInit /\ BatchIdle
    /\ ctx = Unused /\ req = Unused
    /\ arg \in [path : {Site, FetchedURL}, doc : Pages]
    /\ ret = [done |-> FALSE, out |-> [kind |-> "error", url |-> ""]]

\* discoverFeedURL(path, content)
ApplyDiscover ==
    /\ ~ret.done
    /\ ret' = [done |-> TRUE, out |-> discoverFeedURL(arg.path, arg.doc)]
    /\ UNCHANGED <<arg, ctx, req, apiVars, batchVars>>

DiscoveryNext == ApplyDiscover

DiscoverySpec == DiscoveryInit /\ [][DiscoveryNext]_vars

-----------------------------------------------------------------------------
(* atom.Feed.Validate.  A feed and its entries carry <author> person       *)
(* constructs and possibly a <dc:creator>; `tagsValid` is what the struct  *)
(* tag validation makes of the feed.                                       *)

RECURSIVE UnescapeString(_)
\* html.UnescapeString for the entities of the markup characters: "&lt;",
\* "&gt;" and "&amp;", with or without the semicolon, become "<", ">", "&"
UnescapeString(s) ==
    IF s = "" THEN ""
    ELSE IF HasPrefix(s, "&lt;") THEN "<" \o UnescapeString(SubSeq(s, 5, Len(s)))
    ELSE IF HasPrefix(s, "&gt;") THEN ">" \o UnescapeString(SubSeq(s, 5, Len(s)))
    ELSE IF HasPrefix(s, "&amp;") THEN "&" \o UnescapeString(SubSeq(s, 6, Len(s)))
    ELSE IF HasPrefix(s, "&lt") THEN "<" \o UnescapeString(SubSeq(s, 4, Len(s)))
    ELSE IF HasPrefix(s, "&gt") THEN ">" \o UnescapeString(SubSeq(s, 4, Len(s)))
    ELSE IF HasPrefix(s, "&amp") THEN "&" \o UnescapeString(SubSeq(s, 5, Len(s)))
    ELSE SubSeq(s, 1, 1) \o UnescapeString(SubSeq(s, 2, Len(s)))

\* the String method of a Dublin Core element (types.String, types.CharData)
DCString(v) == UnescapeString(v)

\* a PersonConstruct: Email and URI are pointers, Nil when the element is absent
Person(name, email, uri) == [name |-> name, email |-> email, uri |-> uri]

\* PersonConstruct.String: the name, then the email in parentheses, then the
\* URI, each of the two only when present and not empty
PersonString(p) ==
    p.name
        \o (IF p.email # Nil /\ p.email # "" THEN " (" \o p.email \o ")" ELSE "")
        \o (IF p.uri # Nil /\ p.uri # "" THEN " " \o p.uri ELSE "")

\* GetAuthors of a Feed or an Entry: the <author> elements, then <dc:creator>
AtomGetAuthors(x) ==
    LET authors == [i \in 1..Len(x.Authors) |-> PersonString(x.Authors[i])]
    IN  IF x.DCCreator # Nil THEN Append(authors, DCString(x.DCCreator)) ELSE authors

\* a variant of the loop that wants every entry to lack authors
MissingEntryAuthorsAllEntries(f) ==
    f.Entries # <<>> /\ \A i \in 1..Len(f.Entries) : Len(AtomGetAuthors(f.Entries[i])) = 0

\* the loop of Feed.Validate: some entry has no authors
MissingEntryAuthors(f) ==
    \E i \in 1..Len(f.Entries) : Len(AtomGetAuthors(f.Entries[i])) = 0

\* Feed.Validate
AtomValidate(f) ==
    IF Len(AtomGetAuthors(f)) = 0 /\ MissingEntryAuthors(f)
    THEN NewErr("ErrFeedValidation",
                "must have at least one author or all entries with authors")
    ELSE IF ~f.tagsValid THEN NewErr("", "feed validation failed")
    ELSE NoErr

\* the authors an element may carry
AuthorLists == {<<>>, <<Person("Mark Pilgrim", Nil, Nil)>>,
                <<Person("Mark", "mark@example.org", Nil), Person("Ann", "", Nil)>>}
Creators == {Nil, "Sam Ruby"}

AtomEntries == [Authors : AuthorLists, DCCreator : Creators]

AtomFeeds ==
    [Authors : AuthorLists, DCCreator : Creators,
     Entries : SeqsUpTo(AtomEntries, MaxEntries), tagsValid : BOOLEAN]

AtomInit ==
    /\ ApiInit /\ BatchIdle
    /\ ctx = Unused /\ req = Unused
    /\ arg \in AtomFeeds
    /\ ret = [done |-> FALSE, err |-> NoErr]

\* f.Validate()
ApplyAtomValidate ==
    /\ ~ret.done
    /\ ret' = [done |-> TRUE, err |-> AtomValidate(arg)]
    /\ UNCHANGED <<arg, ctx, req, apiVars, batchVars>>

AtomNext == ApplyAtomValidate

AtomSpec == AtomInit /\ [][AtomNext]_vars

-----------------------------------------------------------------------------
(* types.DateTime.  A time is its civil fields and zone offset (minutes);  *)
(* time.Parse is followed element by element for the layout elements that  *)
(* occur in DateTimeFormats.                                               *)

Time(year, month, day, hour, min, sec, off) ==
    [year |-> year, month |-> month, day |-> day, hour |-> hour, min |-> min,
     sec |-> sec, off |-> off]

\* time.Time{}: January 1, year 1, 00:00:00 UTC
ZeroTime == Time(1, 1, 1, 0, 0, 0, 0)

\* time.Unix(0, 0)
UnixEpoch == Time(1970, 1, 1, 0, 0, 0, 0)

\* (time.Time).IsZero
IsZero(t) == t = ZeroTime

DigitVal ==
    ("0" :> 0) @@ ("1" :> 1) @@ ("2" :> 2) @@ ("3" :> 3) @@ ("4" :> 4) @@
    ("5" :> 5) @@ ("6" :> 6) @@ ("7" :> 7) @@ ("8" :> 8) @@ ("9" :> 9)

IsDigitAt(s, i) == i <= Len(s) /\ SubSeq(s, i, i) \in DOMAIN DigitVal

\* the first n characters of s are digits
Fixed(s, n) == Len(s) >= n /\ \A i \in 1..n : IsDigitAt(s, i)

RECURSIVE Num(_)
\* the number a string of digits denotes
Num(s) ==
    IF s = "" THEN 0
    ELSE Num(SubSeq(s, 1, Len(s) - 1)) * 10 + DigitVal[SubSeq(s, Len(s), Len(s))]

\* s without its first n characters
Rest(s, n) == SubSeq(s, n + 1, Len(s))

\* getnum(value, false): one digit, or two if two are there
FlexLen(s) == IF IsDigitAt(s, 2) THEN 2 ELSE 1

MonthNames ==
    <<"Jan", "Feb", "Mar", "Apr", "May", "Jun", "Jul", "Aug", "Sep", "Oct", "Nov", "Dec">>
DayNames == <<"Sun", "Mon", "Tue", "Wed", "Thu", "Fri", "Sat">>

Upper ==
    {"A", "B", "C", "D", "E", "F", "G", "H", "I", "J", "K", "L", "M", "N", "O",
     "P", "Q", "R", "S", "T", "U", "V", "W", "X", "Y", "Z"}

\* the position of name in names, 0 if it is not there
IndexOf(names, name) ==
    IF SeqContains(names, name) THEN CHOOSE i \in 1..Len(names) : names[i] = name ELSE 0

IsLeap(year) == year % 4 = 0 /\ (year % 100 # 0 \/ year % 400 = 0)

\* daysIn(month, year)
DaysIn(month, year) ==
    IF month = 2 THEN (IF IsLeap(year) THEN 29 ELSE 28)
    ELSE IF month \in {4, 6, 9, 11} THEN 30 ELSE 31

\* s begins with a numeric zone "+hh:mm" (colon) or "+hhmm" (no colon)
IsNumZone(s, colon) ==
    /\ Len(s) >= (IF colon THEN 6 ELSE 5)
    /\ SubSeq(s, 1, 1) \in {"+", "-"}
    /\ Fixed(Rest(s, 1), 2)
    /\ IF colon THEN SubSeq(s, 4, 4) = ":" /\ Fixed(Rest(s, 4), 2)
       ELSE Fixed(Rest(s, 3), 2)

\* the offset, in minutes, of the numeric zone s begins with
NumZone(s, colon) ==
    (IF SubSeq(s, 1, 1) = "-" THEN -1 ELSE 1) *
    (Num(SubSeq(s, 2, 3)) * 60
        + Num(IF colon THEN SubSeq(s, 5, 6) ELSE SubSeq(s, 4, 5)))

\* the length of the zone abbreviation s begins with (parseTimeZone: three
\* capitals, or four ending in T), 0 if there is none
ZoneAbbrLen(s) ==
    LET caps == {n \in 1..Len(s) : \A i \in 1..n : SubSeq(s, i, i) \in Upper}
    IN  IF 4 \in caps /\ 5 \notin caps /\ SubSeq(s, 4, 4) = "T" THEN 4
        ELSE IF 3 \in caps /\ 4 \notin caps THEN 3
        ELSE 0

RECURSIVE SkipDigits(_)
\* s without its leading digits
SkipDigits(s) == IF IsDigitAt(s, 1) THEN SkipDigits(Rest(s, 1)) ELSE s

\* after the seconds field the input may carry a fraction the layout does
\* not name
SkipFraction(layout, s) ==
    IF ~HasPrefix(layout, ".") /\ HasPrefix(s, ".") /\ IsDigitAt(s, 2)
    THEN SkipDigits(Rest(s, 1)) ELSE s

ParseFailed == [ok |-> FALSE, t |-> ZeroTime]

\* the layout elements DateTimeFormats uses, longest first where one begins
\* another
StdChunks ==
    <<"2006", "Jan", "Mon", "MST", "01", "02", "04", "05", "15", "2", ".00",
      "-0700", "Z07:00", "-07:00">>

\* nextStdChunk: the element the layout begins with, or its first character
\* as a literal
NextStdChunk(layout) ==
    IF \E i \in 1..Len(StdChunks) : HasPrefix(layout, StdChunks[i])
    THEN StdChunks[CHOOSE i \in 1..Len(StdChunks) :
                        /\ HasPrefix(layout, StdChunks[i])
                        /\ \A j \in 1..(i - 1) : ~HasPrefix(layout, StdChunks[j])]
    ELSE SubSeq(layout, 1, 1)

Consumed(n, t) == [ok |-> TRUE, n |-> n, t |-> t]
Refused == [ok |-> FALSE, n |-> 0, t |-> ZeroTime]

\* one round of the loop of time.Parse: what the element std takes from the
\* head of value (n characters) and the field it sets, or its refusal; layout
\* is what follows std
ParseChunk(std, layout, value, t) ==
    CASE std = "2006" ->
            IF Fixed(value, 4)
            THEN Consumed(4, [t EXCEPT !.year = Num(SubSeq(value, 1, 4))]) ELSE Refused
      [] std = "Jan" ->
            IF Len(value) >= 3 /\ IndexOf(MonthNames, SubSeq(value, 1, 3)) > 0
            THEN Consumed(3, [t EXCEPT !.month = IndexOf(MonthNames, SubSeq(value, 1, 3))])
            ELSE Refused
      [] std = "Mon" ->
            IF Len(value) >= 3 /\ IndexOf(DayNames, SubSeq(value, 1, 3)) > 0
            THEN Consumed(3, t) ELSE Refused
      [] std = "MST" ->
            IF ZoneAbbrLen(value) > 0 THEN Consumed(ZoneAbbrLen(value), t) ELSE Refused
      [] std = "01" ->
            IF Fixed(value, 2) /\ Num(SubSeq(value, 1, 2)) \in 1..12
            THEN Consumed(2, [t EXCEPT !.month = Num(SubSeq(value, 1, 2))]) ELSE Refused
      [] std = "02" ->
            IF Fixed(value, 2)
            THEN Consumed(2, [t EXCEPT !.day = Num(SubSeq(value, 1, 2))]) ELSE Refused
      [] std = "04" ->
            IF Fixed(value, 2) /\ Num(SubSeq(value, 1, 2)) < 60
            THEN Consumed(2, [t EXCEPT !.min = Num(SubSeq(value, 1, 2))]) ELSE Refused
      [] std = "05" ->
            IF Fixed(value, 2) /\ Num(SubSeq(value, 1, 2)) < 60
            THEN Consumed(Len(value) - Len(SkipFraction(layout, Rest(value, 2))),
                          [t EXCEPT !.sec = Num(SubSeq(value, 1, 2))])
            ELSE Refused
      [] std = "15" ->
            IF IsDigitAt(value, 1) /\ Num(SubSeq(value, 1, FlexLen(value))) < 24
            THEN Consumed(FlexLen(value),
                          [t EXCEPT !.hour = Num(SubSeq(value, 1, FlexLen(value)))])
            ELSE Refused
      [] std = "2" ->
            IF IsDigitAt(value, 1)
            THEN Consumed(FlexLen(value),
                          [t EXCEPT !.day = Num(SubSeq(value, 1, FlexLen(value)))])
            ELSE Refused
      [] std = ".00" ->
            IF HasPrefix(value, ".") /\ Fixed(Rest(value, 1), 2)
            THEN Consumed(3, t) ELSE Refused
      [] std = "-0700" ->
            IF IsNumZone(value, FALSE)
            THEN Consumed(5, [t EXCEPT !.off = NumZone(value, FALSE)]) ELSE Refused
      [] std = "Z07:00" /\ HasPrefix(value, "Z") -> Consumed(1, t)
      [] std \in {"Z07:00", "-07:00"} /\ ~HasPrefix(value, "Z") ->
            IF IsNumZone(value, TRUE)
            THEN Consumed(6, [t EXCEPT !.off = NumZone(value, TRUE)]) ELSE Refused
      [] OTHER ->
            IF HasPrefix(value, std) THEN Consumed(Len(std), t) ELSE Refused

\* what is left of the parse once the chunk std has been tried
AfterChunk(std, layout, value, t) ==
    [chunk |-> ParseChunk(std, Rest(layout, Len(std)), value, t),
     layout |-> Rest(layout, Len(std))]

RECURSIVE ParseFrom(_, _, _)
RECURSIVE ParseRest(_, _)
\* time.Parse from the next element of the layout on: t holds the fields read
\* so far; at the end of the layout the value must be used up and the day
\* must be one of the month
ParseFrom(layout, value, t) ==
    IF layout = ""
    THEN IF value = "" /\ t.day >= 1 /\ t.day <= DaysIn(t.month, t.year)
         THEN [ok |-> TRUE, t |-> t] ELSE ParseFailed
    ELSE ParseRest(AfterChunk(NextStdChunk(layout), layout, value, t), value)

ParseRest(after, value) ==
    IF after.chunk.ok
    THEN ParseFrom(after.layout, Rest(value, after.chunk.n), after.chunk.t)
    ELSE ParseFailed

\* time.Parse(layout, value)
Parse(layout, value) == ParseFrom(layout, value, Time(0, 1, 1, 0, 0, 0, 0))

\* DateTimeFormats
DateTimeFormats ==
    <<"Mon, 02 Jan 2006 15:04:05 -0700",
      "Mon, 02 Jan 2006 15:04:05 MST",
      "Mon, 2 Jan 2006 15:04:05 -0700",
      "Mon, 2 Jan 2006 15:04:05 MST",
      "Mon, 02 Jan 2006 15:04 -0700",
      "Mon, 02 Jan 2006 15:04 MST",
      "Mon, 2 Jan 2006 15:04 -0700",
      "Mon, 2 Jan 2006 15:04 MST",
      "2006-01-02T15:04:05Z07:00",
      "2006-01-02T15:04:05.00Z07:00",
      "2006-01-02 15:04:05",
      "2006-01-02",
      "2006-01-02T15:04-07:00",
      "2006-01",
      "2006",
      "Jan 2, 2006",
      "2006 Jan 2 15:04:05 MST",
      "Mon, 2 Jan 2006">>

\* the formats that parse the trimmed data
Parsing(data) ==
    {i \in 1..Len(DateTimeFormats) : Parse(DateTimeFormats[i], TrimSpace(data)).ok}

\* the loop of tryFormats leaves in parsed the time of the last format that
\* parses, the zero time if none does
LastParsed(data, parsing) ==
    IF parsing = {} THEN ZeroTime
    ELSE Parse(DateTimeFormats[CHOOSE i \in parsing : \A j \in parsing : j <= i],
               TrimSpace(data)).t

\* tryFormats: the error returned is nil on every path
tryFormats(data) == [t |-> LastParsed(data, Parsing(data)), err |-> NoErr]

\* (*DateTime).UnmarshalText: the time tryFormats gives is stored, its error
\* returned
UnmarshalText(data) == tryFormats(data)

\* a JSON string literal
IsJSONString(data) ==
    Len(data) >= 2 /\ HasPrefix(data, "\"") /\ HasSuffix(data, "\"")

\* (*DateTime).UnmarshalJSON: a value that is no JSON string is an error
\* joined with ErrInvalidDateTimeFormat, a string goes to tryFormats
UnmarshalJSON(data) ==
    IF IsJSONString(data)
    THEN tryFormats(SubSeq(data, 2, Len(data) - 1))
    ELSE [t |-> ZeroTime,
          err |-> [is |-> {"ErrInvalidDateTimeFormat"}, msg |-> "json: cannot unmarshal"]]

\* a date field of an item: a *types.DateTime is nil until its element is
\* decoded, a types.DateTime value is the zero time until then
NilDate == [nil |-> TRUE, t |-> ZeroTime]
ZeroDate == [nil |-> FALSE, t |-> ZeroTime]

\* the decoder's treatment of one date element: absent, the field keeps its
\* initial value; present, the field's unmarshaler is run on its text
DecodeDate(format, elem, initial) ==
    IF ~elem.present THEN [date |-> initial, err |-> NoErr]
    ELSE IF format = "json"
    THEN [date |-> [nil |-> FALSE, t |-> UnmarshalJSON(elem.text).t],
          err |-> UnmarshalJSON(elem.text).err]
    ELSE [date |-> [nil |-> FALSE, t |-> UnmarshalText(elem.text).t],
          err |-> UnmarshalText(elem.text).err]

\* the fields an item starts with: Atom's Published and Updated hold their
\* DateTime by value, RSS's PubDate and JSONFeed's DatePublished and
\* DateModified are pointers
InitialDate(format) == IF format = "atom" THEN ZeroDate ELSE NilDate

\* decoding an item document: the first date that fails to unmarshal fails
\* the decode
DecodeItem(doc, pub, upd) ==
    IF pub.err # NoErr THEN [ok |-> FALSE, err |-> pub.err,
                             Published |-> InitialDate(doc.format),
                             Updated |-> InitialDate(doc.format)]
    ELSE IF upd.err # NoErr THEN [ok |-> FALSE, err |-> upd.err,
                                  Published |-> pub.date,
                                  Updated |-> InitialDate(doc.format)]
    ELSE [ok |-> TRUE, err |-> NoErr, Published |-> pub.date, Updated |-> upd.date]

\* (*atom.Entry).GetPublishedDate
AtomGetPublishedDate(e) == IF ~IsZero(e.Published.t) THEN e.Published.t ELSE UnixEpoch

\* (*atom.Entry).GetUpdatedDate
AtomGetUpdatedDate(e) == e.Updated.t

\* (*rss.Item).GetPublishedDate
RSSGetPublishedDate(i) == IF ~i.Published.nil THEN i.Published.t ELSE UnixEpoch

\* (*rss.Item).GetUpdatedDate
RSSGetUpdatedDate(i) == RSSGetPublishedDate(i)

\* (*jsonfeed.Item).GetPublishedDate
JSONGetPublishedDate(i) == IF ~i.Published.nil THEN i.Published.t ELSE UnixEpoch

\* (*jsonfeed.Item).GetUpdatedDate
JSONGetUpdatedDate(i) == IF ~i.Updated.nil THEN i.Updated.t ELSE UnixEpoch

\* the method the item's type gives the interface
GetPublishedDate(format, item) ==
    CASE format = "atom" -> AtomGetPublishedDate(item)
      [] format = "rss" -> RSSGetPublishedDate(item)
      [] format = "json" -> JSONGetPublishedDate(item)

GetUpdatedDate(format, item) ==
    CASE format = "atom" -> AtomGetUpdatedDate(item)
      [] format = "rss" -> RSSGetUpdatedDate(item)
      [] format = "json" -> JSONGetUpdatedDate(item)

\* date texts met in feeds: well-formed, out of range, and not dates at all
DateTexts ==
    {"2003-12-13T18:30:02Z", "2003-12-13T18:30:02.25+01:00",
     "2003-12-32T18:30:02Z", "2003-12-13T25:30:02Z",
     "Sat, 13 Dec 2003 18:30:02 GMT", "Sat, 13 Dec 2003 18:30:02 +0100",
     "Sat, 3 Jan 2004 18:30 -0500", "2003-12-13", "2003", "Dec 13, 2003",
     "yesterday", "", " 2003-12-13T18:30:02Z ",
     "0001-01-01T00:00:00Z", "1970-01-01T00:00:00Z"}

Absent == [present |-> FALSE, text |-> ""]
Element(text) == [present |-> TRUE, text |-> text]

\* the date elements a document of the format may carry
DateElements(format) ==
    IF format = "json"
    THEN {Absent, Element("20031213")} \cup {Element("\"" \o s \o "\"") : s \in DateTexts}
    ELSE {Absent} \cup {Element(s) : s \in DateTexts}

\* item documents: an RSS item has the one date, pubDate
ItemDocs ==
    UNION {[format : {f}, published : DateElements(f),
            updated : IF f = "rss" THEN {Absent} ELSE DateElements(f)]
           : f \in {"rss", "atom", "json"}}

Undecoded ==
    [pc |-> "document", ok |-> FALSE, err |-> NoErr,
     Published |-> ZeroDate, Updated |-> ZeroDate,
     gotPublished |-> FALSE, published |-> ZeroTime,
     gotUpdated |-> FALSE, updated |-> ZeroTime]

DateInit ==
    /\ arg \in ItemDocs
    /\ ret = Undecoded
    /\ ctx = Unused
    /\ req = Unused
    /\ ApiInit
    /\ BatchIdle

\* the item document is decoded
ApplyDecodeItem(item) ==
    /\ ret' = [ret EXCEPT !.pc = IF item.ok THEN "decoded" ELSE "failed",
                          !.ok = item.ok, !.err = item.err,
                          !.Published = item.Published, !.Updated = item.Updated]
    /\ UNCHANGED <<arg, ctx, req, apiVars, batchVars>>

DecodeItemDoc ==
    /\ ret.pc = "document"
    /\ ApplyDecodeItem(DecodeItem(arg,
            DecodeDate(arg.format, arg.published, InitialDate(arg.format)),
            DecodeDate(arg.format, arg.updated, InitialDate(arg.format))))

\* the caller asks the decoded item for its published date
CallGetPublishedDate ==
    /\ ret.pc = "decoded"
    /\ ~ret.gotPublished
    /\ ret' = [ret EXCEPT !.gotPublished = TRUE,
                          !.published = GetPublishedDate(arg.format, ret)]
    /\ UNCHANGED <<arg, ctx, req, apiVars, batchVars>>

\* the caller asks the decoded item for its updated date
CallGetUpdatedDate ==
    /\ ret.pc = "decoded"
    /\ ~ret.gotUpdated
    /\ ret' = [ret EXCEPT !.gotUpdated = TRUE,
                          !.updated = GetUpdatedDate(arg.format, ret)]
    /\ UNCHANGED <<arg, ctx, req, apiVars, batchVars>>

DateNext ==
    \/ DecodeItemDoc
    \/ CallGetPublishedDate
    \/ CallGetUpdatedDate

DateSpec == DateInit /\ [][DateNext]_vars

-----------------------------------------------------------------------------
(* Authors and contributors of an Atom feed or entry.                      *)

\* GetContributors of a Feed or an Entry: the <contributor> elements, then,
\* when <dc:contributor> is present, the String of the <dc:creator> field;
\* String called through a nil pointer faults
AtomGetContributors(x) ==
    IF x.DCContributor # Nil /\ x.DCCreator = Nil
    THEN [panic |-> TRUE, val |-> <<>>]
    ELSE [panic |-> FALSE,
          val |-> [i \in 1..Len(x.Contributors) |-> PersonString(x.Contributors[i])]
                    \o (IF x.DCContributor # Nil THEN <<DCString(x.DCCreator)>> ELSE <<>>)]

\* the persons an element may name: with and without email and URI
Persons ==
    {Person("Mark", e, u) : e \in {Nil, "", "mark@example.org"},
                            u \in {Nil, "", "http://example.org/"}}

PersonLists ==
    {<<>>, <<Person("Ann", Nil, Nil), Person("Bob", "bob@example.org", Nil)>>}
        \cup {<<p>> : p \in Persons}

\* Atom feeds and entries, by their author and contributor fields
AtomElements ==
    [kind : {"feed", "entry"}, Authors : PersonLists, DCCreator : {Nil, "Sam &amp; Ruby"},
     Contributors : PersonLists, DCContributor : {Nil, "Joe Gregorio"}]

NotCalled == [called |-> FALSE, panic |-> FALSE, val |-> <<>>]

PeopleInit ==
    /\ ApiInit /\ BatchIdle
    /\ ctx = Unused /\ req = Unused
    /\ arg \in AtomElements
    /\ ret = [authors |-> NotCalled, contributors |-> NotCalled]

\* x.GetAuthors()
CallGetAuthors ==
    /\ ~ret.authors.called
    /\ ~ret.contributors.panic
    /\ ret' = [ret EXCEPT !.authors =
                    [called |-> TRUE, panic |-> FALSE, val |-> AtomGetAuthors(arg)]]
    /\ UNCHANGED <<arg, ctx, req, apiVars, batchVars>>

\* what the caller of GetContributors sees
Contributed(got) == [called |-> TRUE, panic |-> got.panic, val |-> got.val]

\* x.GetContributors()
CallGetContributors ==
    /\ ~ret.contributors.called
    /\ ret' = [ret EXCEPT !.contributors = Contributed(AtomGetContributors(arg))]
    /\ UNCHANGED <<arg, ctx, req, apiVars, batchVars>>

PeopleNext ==
    \/ CallGetAuthors
    \/ CallGetContributors

PeopleSpec == PeopleInit /\ [][PeopleNext]_vars

-----------------------------------------------------------------------------
(* sanitization.SanitizeString.  The policy's Sanitize is followed token   *)
(* by token: a tag of an allowed element is kept, any other tag is         *)
(* dropped, a dropped <script> takes its content with it, and text is      *)
(* unescaped by the tokenizer and escaped again when written.              *)

Lower ==
    {"a", "b", "c", "d", "e", "f", "g", "h", "i", "j", "k", "l", "m", "n", "o",
     "p", "q", "r", "s", "t", "u", "v", "w", "x", "y", "z"}

IsLetterAt(s, i) == i <= Len(s) /\ SubSeq(s, i, i) \in Lower

\* elements bluemonday.UGCPolicy() lets through (those the texts below use)
AllowedElements == {"b", "i", "em", "strong", "p"}

\* the tokenizer reads a tag at "<" or "</" followed by a letter
IsTagOpen(s) ==
    /\ HasPrefix(s, "<")
    /\ \/ IsLetterAt(s, 2)
       \/ (Len(s) >= 2 /\ SubSeq(s, 2, 2) = "/" /\ IsLetterAt(s, 3))

IsEndTag(tag) == HasPrefix(tag, "</")

RECURSIVE Letters(_)
\* the letters s begins with
Letters(s) == IF IsLetterAt(s, 1) THEN SubSeq(s, 1, 1) \o Letters(Rest(s, 1)) ELSE ""

\* the element a tag names
TagName(tag) == Letters(Rest(tag, IF IsEndTag(tag) THEN 2 ELSE 1))

\* what the policy writes for a tag: the tag without attributes when its
\* element is allowed, nothing otherwise
TagOutput(tag) ==
    IF TagName(tag) \in AllowedElements
    THEN (IF IsEndTag(tag) THEN "</" ELSE "<") \o TagName(tag) \o ">"
    ELSE ""

\* the length of the entity s begins with, 0 if it begins with none
EntityLen(s) ==
    IF HasPrefix(s, "&lt;") \/ HasPrefix(s, "&gt;") THEN 4
    ELSE IF HasPrefix(s, "&amp;") THEN 5
    ELSE IF HasPrefix(s, "&lt") \/ HasPrefix(s, "&gt") THEN 3
    ELSE IF HasPrefix(s, "&amp") THEN 4
    ELSE 0

\* html.EscapeString
EscapeString(s) ==
    CASE s = "&" -> "&amp;"
      [] s = "<" -> "&lt;"
      [] s = ">" -> "&gt;"
      [] OTHER -> s

Written(out, n, skip) == [out |-> out, n |-> n, skip |-> skip]

\* one token of the policy's loop over the document s: what is written, how
\* much of s the token takes, and whether the content of a dropped <script>
\* is being skipped afterwards
SanitizeToken(s, skipping) ==
    CASE skipping /\ HasPrefix(s, "</script>") -> Written("", 9, FALSE)
      [] skipping /\ ~HasPrefix(s, "</script>") -> Written("", 1, TRUE)
      [] ~skipping /\ IsTagOpen(s) /\ IndexFrom(s, ">", 1) = 0 ->
            \* the tag never closes: the tokenizer reports the end of input
            Written("", Len(s), FALSE)
      [] ~skipping /\ IsTagOpen(s) /\ IndexFrom(s, ">", 1) > 0 ->
            Written(TagOutput(SubSeq(s, 1, IndexFrom(s, ">", 1))),
                    IndexFrom(s, ">", 1),
                    ~IsEndTag(s) /\ TagName(s) = "script")
      [] ~skipping /\ ~IsTagOpen(s) /\ EntityLen(s) > 0 ->
            Written(EscapeString(UnescapeString(SubSeq(s, 1, EntityLen(s)))),
                    EntityLen(s), FALSE)
      [] OTHER -> Written(EscapeString(SubSeq(s, 1, 1)), 1, FALSE)

RECURSIVE SanitizeFrom(_, _)
RECURSIVE SanitizeRest(_, _)
SanitizeFrom(s, skipping) ==
    IF s = "" THEN "" ELSE SanitizeRest(SanitizeToken(s, skipping), s)

SanitizeRest(token, s) == token.out \o SanitizeFrom(Rest(s, token.n), token.skip)

\* (*bluemonday.Policy).Sanitize under UGCPolicy
PolicySanitize(s) == SanitizeFrom(s, FALSE)

\* SanitizeString
SanitizeString(str) == TrimSpace(UnescapeString(PolicySanitize(str)))

\* what texts are made of: plain text, space, markup, escaped markup
Pieces ==
    {"a", " ", "<b>", "</b>", "<script>", "</script>", "&lt;", "&gt;", "&amp;",
     "b", "script", "lt;"}

RECURSIVE TextsUpTo(_)
\* the texts of at most n pieces
TextsUpTo(n) ==
    IF n = 0 THEN {""}
    ELSE TextsUpTo(n - 1) \cup {t \o p : t \in TextsUpTo(n - 1), p \in Pieces}

SanitizeInit ==
    /\ ApiInit /\ BatchIdle
    /\ ctx = Unused /\ req = Unused
    /\ arg \in TextsUpTo(MaxPieces)
    /\ ret = [n |-> 0, once |-> "", twice |-> ""]

\* once := SanitizeString(x)
SanitizeOnce ==
    /\ ret.n = 0
    /\ ret' = [ret EXCEPT !.n = 1, !.once = SanitizeString(arg)]
    /\ UNCHANGED <<arg, ctx, req, apiVars, batchVars>>

\* twice := SanitizeString(once)
SanitizeAgain ==
    /\ ret.n = 1
    /\ ret' = [ret EXCEPT !.n = 2, !.twice = SanitizeString(ret.once)]
    /\ UNCHANGED <<arg, ctx, req, apiVars, batchVars>>

SanitizeNext ==
    \/ SanitizeOnce
    \/ SanitizeAgain

SanitizeSpec == SanitizeInit /\ [][SanitizeNext]_vars

-----------------------------------------------------------------------------
(* rss.Item: GetID and GetImage.  An optional element is a record with a   *)
(* nil flag, its fields empty when the pointer is nil.                     *)

\* MimeTypesImage
MimeTypesImage ==
    <<"image/avif", "image/gif", "image/jpeg", "image/png", "image/svg+xml", "image/webp">>

\* types.IsImage
IsImage(mimetype) ==
    \E i \in 1..Len(MimeTypesImage) : Contains(mimetype, MimeTypesImage[i])

NoGUID == [nil |-> TRUE, Value |-> ""]
GUID(value) == [nil |-> FALSE, Value |-> value]

NoItemImage == [nil |-> TRUE, Link |-> "", Title |-> ""]
ItemImage(link, title) == [nil |-> FALSE, Link |-> link, Title |-> title]

NoEnclosure == [nil |-> TRUE, Type |-> "", URL |-> ""]
Enclosure(type, url) == [nil |-> FALSE, Type |-> type, URL |-> url]

NoMediaContent == [nil |-> TRUE, Medium |-> "", Type |-> "", Url |-> ""]
MediaContent(medium, type, url) ==
    [nil |-> FALSE, Medium |-> medium, Type |-> type, Url |-> url]

\* a *types.ImageInfo
NoImageInfo == [nil |-> TRUE, URL |-> ""]
ImageInfo(url) == [nil |-> FALSE, URL |-> url]

\* (*MediaContent).IsImage: medium="image", or a mimetype of an image
MediaContentIsImage(c) ==
    IF c.Medium = "image" THEN [isImage |-> TRUE, image |-> ImageInfo(c.Url)]
    ELSE IF IsImage(c.Type) THEN [isImage |-> TRUE, image |-> ImageInfo(c.Url)]
    ELSE [isImage |-> FALSE, image |-> NoImageInfo]

\* (*MediaThumbnail).AsImage
ThumbnailAsImage(t) == ImageInfo(t)

\* (*Item).GetImage: the switch takes the first case whose condition holds
ItemGetImage(i) ==
    IF ~i.Image.nil THEN ImageInfo(i.Image.Link)
    ELSE IF ~i.Enclosure.nil /\ IsImage(i.Enclosure.Type) THEN ImageInfo(i.Enclosure.URL)
    ELSE IF ~i.MediaContent.nil
    THEN (IF MediaContentIsImage(i.MediaContent).isImage
          THEN MediaContentIsImage(i.MediaContent).image
          ELSE NoImageInfo)
    ELSE IF Len(i.MediaThumbnails) > 0 THEN ThumbnailAsImage(i.MediaThumbnails[1])
    ELSE NoImageInfo

\* (*Item).GetID: i.GUID.Value.String(), the field read through the pointer
ItemGetID(i) ==
    IF i.GUID.nil THEN [panic |-> TRUE, val |-> ""]
    ELSE [panic |-> FALSE, val |-> UnescapeString(i.GUID.Value)]

\* RSS items, by their <guid> and their image-bearing elements
Items ==
    [GUID : {NoGUID, GUID(""), GUID("urn:uuid:1225c695")},
     Image : {NoItemImage, ItemImage("http://example.org/image.png", "An image")},
     Enclosure : {NoEnclosure, Enclosure("image/png", "http://example.org/enclosure.png"),
                  Enclosure("audio/mpeg", "http://example.org/episode.mp3")},
     MediaContent : {NoMediaContent,
                     MediaContent("image", "", "http://example.org/medium.jpg"),
                     MediaContent("", "image/jpeg", "http://example.org/content.jpg"),
                     MediaContent("video", "video/quicktime", "http://example.org/trailer.mov")},
     MediaThumbnails : {<<>>, <<"http://example.org/thumbnail">>,
                        <<"http://example.org/thumb1", "http://example.org/thumb2">>}]

ItemInit ==
    /\ ApiInit /\ BatchIdle
    /\ ctx = Unused /\ req = Unused
    /\ arg \in Items
    /\ ret = [id |-> [called |-> FALSE, panic |-> FALSE, val |-> ""],
              image |-> [called |-> FALSE, info |-> NoImageInfo]]

\* what the caller of GetID sees
GotID(got) == [called |-> TRUE, panic |-> got.panic, val |-> got.val]

\* item.GetID()
CallItemGetID ==
    /\ ~ret.id.called
    /\ ret' = [ret EXCEPT !.id = GotID(ItemGetID(arg))]
    /\ UNCHANGED <<arg, ctx, req, apiVars, batchVars>>

\* item.GetImage()
CallItemGetImage ==
    /\ ~ret.image.called
    /\ ~ret.id.panic
    /\ ret' = [ret EXCEPT !.image = [called |-> TRUE, info |-> ItemGetImage(arg)]]
    /\ UNCHANGED <<arg, ctx, req, apiVars, batchVars>>

ItemNext ==
    \/ CallItemGetID
    \/ CallItemGetImage

ItemSpec == ItemInit /\ [][ItemNext]_vars

-----------------------------------------------------------------------------
(* FindFeedImage: what it does with the page readability returns.          *)

\* the page readability.FromURL extracts, or its failure to fetch it
Page(fetched, hero, favicon) == [fetched |-> fetched, hero |-> hero, favicon |-> favicon]

\* an alternative order: the favicon before the hero image
PickFaviconFirst(page) ==
    IF page.favicon # "" THEN page.favicon ELSE page.hero

\* the switch of discoverFeedImage: ImageURL() if not empty, else Favicon()
PickImage(page) ==
    IF page.hero # "" THEN page.hero ELSE page.favicon

\* (*url.URL).String of the source URL with its Path set to p
WithPath(u, p) == u.scheme \o "://" \o u.host \o JoinRoot(p)

\* discoverFeedImage(feed, timeout), the page being what the fetch gives
discoverFeedImage(feed, page) ==
    IF UrlParse(feed).err
    THEN [url |-> "", err |-> NewErr("", "discover feed image: failed to parse url")]
    ELSE IF ~page.fetched
    THEN [url |-> "", err |-> NewErr("", "discover feed image: failed to parse url")]
    ELSE IF PickImage(page) = ""
    THEN [url |-> "", err |-> NewErr("", "discover feed image: 404")]
    ELSE IF UrlParse(PickImage(page)).err
    THEN [url |-> "", err |-> NewErr("", "discover feed image: failed to parse image url")]
    ELSE IF ~IsAbs(UrlParse(PickImage(page)))
    THEN [url |-> WithPath(UrlParse(feed), UrlString(UrlParse(PickImage(page)))),
          err |-> NoErr]
    ELSE [url |-> UrlString(UrlParse(PickImage(page))), err |-> NoErr]

\* FindFeedImage(ctx, feed): an error leaves the feed alone, an image is set
FindFeedImage(feed, found) ==
    IF found.err # NoErr
    THEN [feed |-> feed, err |-> NewErr("", "unable to find feed image")]
    ELSE [feed |-> SetImage(feed, found.url), err |-> NoErr]

\* feeds by their link and the image they already have
ImageFeeds ==
    [link : {Site, Site \o "/blog"}, image : {"", "https://old.example/logo.png"},
     type : Formats]

\* the pages a link may lead to, and the fetch that fails
ReadabilityPages ==
    {Page(FALSE, "", "")} \cup
    {Page(TRUE, h, f) : h \in {"", "https://cdn.example/hero.png", "/img/hero.png"},
                        f \in {"", "https://x.example/favicon.ico", "/favicon.ico",
                                "favicon.ico"}}

ImageInit ==
    /\ ApiInit /\ BatchIdle
    /\ ctx = Unused /\ req = Unused
    /\ arg \in [feed : ImageFeeds, page : ReadabilityPages]
    /\ ret = [called |-> FALSE, feed |-> arg.feed, err |-> NoErr]

\* what the caller has once FindFeedImage returned
Found(out) == [called |-> TRUE, feed |-> out.feed, err |-> out.err]

\* err := FindFeedImage(ctx, feed)
FindFeedImageReturns ==
    /\ ~ret.called
    /\ ret' = Found(FindFeedImage(ret.feed, discoverFeedImage(ret.feed.link, arg.page)))
    /\ UNCHANGED <<arg, ctx, req, apiVars, batchVars>>

ImageNext == FindFeedImageReturns

ImageSpec == ImageInit /\ [][ImageNext]_vars

-----------------------------------------------------------------------------
(* The batch calls under the scheduler: a goroutine that can run is run.   *)

BatchFairSpec == BatchSpec /\ WF_vars(BatchNext)

-----------------------------------------------------------------------------
(* client.HeadReader: the reader ParseURL puts between the response body   *)
(* and the XML decoder.  The state is the reader's fields (done, total,    *)
(* maxRead), the position of the underlying reader in the stream, and, as  *)
(* history, the bytes delivered to the caller and what the last Read       *)
(* returned.  One Read of the underlying reader hands over between one     *)
(* byte and the caller's buffer, whose length the caller picks per call.   *)

UpperCase ==
    <<"A", "B", "C", "D", "E", "F", "G", "H", "I", "J", "K", "L", "M",
      "N", "O", "P", "Q", "R", "S", "T", "U", "V", "W", "X", "Y", "Z">>

LowerCase ==
    <<"a", "b", "c", "d", "e", "f", "g", "h", "i", "j", "k", "l", "m",
      "n", "o", "p", "q", "r", "s", "t", "u", "v", "w", "x", "y", "z">>

RECURSIVE ToLower(_)
\* strings.ToLower
ToLower(s) ==
    IF s = "" THEN ""
    ELSE LET c == SubSeq(s, 1, 1)
             k == IndexOf(UpperCase, c)
         IN  (IF k = 0 THEN c ELSE LowerCase[k]) \o ToLower(SubSeq(s, 2, Len(s)))

HeadEnd == "</head>"

\* the maxBytes ParseURL passes to NewHeadReader: 256*1024
HeadMaxBytes == 262144

\* NewHeadReader(r, maxBytes), with r at the start of stream
NewHeadReader(stream, maxBytes) ==
    [stream |-> stream, pos |-> 0, done |-> FALSE, total |-> 0, maxRead |-> maxBytes,
     delivered |-> "", before |-> 0, calls |-> 0, n |-> 0, err |-> Nil]

\* h.r.Read(src) with len(src) = size: the bytes handed over and the error
UnderlyingRead(h, size) ==
    IF h.pos >= Len(h.stream) THEN [chunk |-> "", err |-> "EOF"]
    ELSE [chunk |-> SubSeq(h.stream, h.pos + 1, Min(h.pos + size, Len(h.stream))),
          err |-> Nil]

\* HeadReader.Read(src) with len(src) = size
HeadReaderRead(h, size) ==
    LET called == [h EXCEPT !.before = Len(h.delivered), !.calls = Min(h.calls + 1, 2)] IN
    IF h.done \/ h.total >= h.maxRead
    THEN [called EXCEPT !.n = 0, !.err = "EOF"]
    ELSE LET read == UnderlyingRead(h, size)
             n == Len(read.chunk)
             idx == IndexFrom(ToLower(read.chunk), HeadEnd, 1)
         IN  IF idx # 0
             THEN [called EXCEPT !.pos = h.pos + n, !.total = h.total + n, !.done = TRUE,
                                 !.n = idx - 1 + Len(HeadEnd), !.err = "EOF",
                                 !.delivered = h.delivered
                                     \o SubSeq(read.chunk, 1, idx - 1 + Len(HeadEnd))]
             ELSE [called EXCEPT !.pos = h.pos + n, !.total = h.total + n,
                                 !.n = n, !.err = read.err,
                                 !.delivered = h.delivered \o read.chunk]

\* response bodies
HeadStreams == {"a</head>bc", "<HEAD></HEAD><p>", "</head></head>", "<p>no tag</p>"}

HeadInit ==
    /\ ApiInit /\ BatchIdle
    /\ ctx = Unused /\ req = Unused
    /\ arg \in [stream : HeadStreams, maxBytes : {4, HeadMaxBytes}]
    /\ ret = NewHeadReader(arg.stream, arg.maxBytes)

\* one Read call by the decoder's buffered reader
CallHeadRead ==
    /\ \E size \in 1..MaxChunk : ret' = HeadReaderRead(ret, size)
    /\ UNCHANGED <<arg, ctx, req, apiVars, batchVars>>

HeadNext == CallHeadRead

HeadSpec == HeadInit /\ [][HeadNext]_vars

-----------------------------------------------------------------------------
(* types.GetMedianInterval.  A time.Duration is an int64 count of          *)
(* nanoseconds; it is kept here as four 16-bit limbs, least significant    *)
(* first, in two's complement, so that the sum of the two middle elements  *)
(* wraps as the int64 sum does and the division truncates toward zero.     *)

Duration(l0, l1, l2, l3) == <<l0, l1, l2, l3>>

Nanoseconds(n) == Duration(n, 0, 0, 0)

\* 5 * time.Minute = 300000000000
FiveMinutes == Duration(47104, 55652, 69, 0)

\* math.MaxInt64, the value time.Time.Sub saturates at
MaxDuration == Duration(65535, 65535, 65535, 32767)

\* -1
MinusOneNanosecond == Duration(65535, 65535, 65535, 65535)

IsNegative(d) == d[4] >= 32768

\* the limbs of d from the most significant down, with the sign bit turned
\* so that the order of the keys is the order of the int64 values
OrderKey(d) == <<(d[4] + 32768) % 65536, d[3], d[2], d[1]>>

\* a < b on int64
DurationLess(a, b) ==
    \E i \in 1..4 : /\ OrderKey(a)[i] < OrderKey(b)[i]
                    /\ \A j \in 1..(i - 1) : OrderKey(a)[j] = OrderKey(b)[j]

RECURSIVE Carry(_, _, _, _)
\* the carry out of limb i of a + b + c
Carry(a, b, c, i) ==
    IF i = 0 THEN c ELSE (a[i] + b[i] + Carry(a, b, c, i - 1)) \div 65536

\* a + b + c on int64, wrapping
AddWithCarry(a, b, c) ==
    [i \in 1..4 |-> (a[i] + b[i] + Carry(a, b, c, i - 1)) % 65536]

\* a + b on int64
DurationAdd(a, b) == AddWithCarry(a, b, 0)

\* d shifted right by one bit, the bit top coming in at the left
ShiftRight(d, top) ==
    [i \in 1..4 |-> (d[i] \div 2) + 32768 * (IF i < 4 THEN d[i + 1] % 2 ELSE top)]

\* d / 2 on int64: the quotient truncated toward zero
DurationHalf(d) ==
    IF IsNegative(d)
    THEN AddWithCarry(ShiftRight(d, 1), Nanoseconds(0), d[1] % 2)
    ELSE ShiftRight(d, 0)

RECURSIVE Inserted(_, _)
\* x put into the sorted s
Inserted(s, x) ==
    IF s = <<>> THEN <<x>>
    ELSE IF DurationLess(x, Head(s)) THEN <<x>> \o s
    ELSE <<Head(s)>> \o Inserted(Tail(s), x)

RECURSIVE SlicesSort(_)
\* slices.Sort
SlicesSort(s) ==
    IF s = <<>> THEN <<>>
    ELSE Inserted(SlicesSort(SubSeq(s, 1, Len(s) - 1)), s[Len(s)])

\* GetMedianInterval(data): the value returned, and data as the call
\* leaves it (the sort is done on dataCopy)
GetMedianInterval(data) ==
    LET dataCopy == SlicesSort(data)
        l == Len(dataCopy)
    IN  [median |-> IF l = 0 THEN Nanoseconds(0)
                    ELSE IF l % 2 = 0
                    THEN DurationHalf(DurationAdd(dataCopy[l \div 2], dataCopy[l \div 2 + 1]))
                    ELSE dataCopy[l \div 2 + 1],
         data |-> data]

\* intervals between the update dates of neighbouring items
Intervals ==
    {MinusOneNanosecond, Nanoseconds(0), Nanoseconds(1), Nanoseconds(4),
     FiveMinutes, MaxDuration}

MedianInit ==
    /\ ApiInit /\ BatchIdle
    /\ ctx = Unused /\ req = Unused
    /\ arg \in SeqsUpTo(Intervals, MaxIntervals)
    /\ ret = [called |-> FALSE, median |-> Nanoseconds(0), data |-> arg]

\* types.GetMedianInterval(intervals), as Feed.GetUpdateInterval calls it
CallGetMedianInterval ==
    /\ ~ret.called
    /\ ret' = [called |-> TRUE,
               median |-> GetMedianInterval(ret.data).median,
               data |-> GetMedianInterval(ret.data).data]
    /\ UNCHANGED <<arg, ctx, req, apiVars, batchVars>>

MedianNext == CallGetMedianInterval

MedianSpec == MedianInit /\ [][MedianNext]_vars

-----------------------------------------------------------------------------
(* Properties.                                                             *)

RECURSIVE Alone(_, _)
\* what parseFeedURL(u) ends with on its own, following at most n discoveries
Alone(u, n) ==
    LET hop == Activations[u] IN
    IF hop.kind = "recurse" /\ n > 0 THEN Alone(hop.next, n - 1) ELSE hop

\* the fetch of u fails in transport or answers with an error status
NetworkFailure(u) == ~Get(u).transport \/ IsError(Get(u))

\* u is served with an ambiguous XML media type and a body with neither marker
AmbiguousNeither(u) ==
    /\ ~NetworkFailure(u)
    /\ isMimeType(Get(u).ctype, MimeTypesIndeterminate)
    /\ ~Contains(Get(u).body.text, "<rss")
    /\ ~Contains(Get(u).body.text, "<feed")

\* the entries of results that worker w sent
SentBy(w) == {k \in 1..Len(results) : results[k].from = w}

\* C1: when a batch call returns, every worker has delivered its result and
\* completed, and the returned list holds exactly one entry per input URL
\* (so len(results) = len(urls)), in whatever order they arrived.
C1_BatchReturnsOnePerURL ==
    collector = "returned" =>
        /\ Len(results) = Len(urls)
        /\ \A w \in 1..Len(urls) : workers[w].pc = "done" /\ Cardinality(SentBy(w)) = 1

\* a batch of two equal URLs has returned, the second worker's result first
C1_Witness ==
    /\ collector = "returned"
    /\ Len(urls) = 2 /\ urls[1] = urls[2]
    /\ results[1].from = 2

\* C2: a failure while processing one URL never aborts the batch: the
\* process is never brought down, and every result a returned batch holds
\* is what its URL yields when fetched alone.
C2_FailureNeverAbortsBatch ==
    /\ ~crashed
    /\ collector = "returned" =>
          \A k \in 1..Len(results) :
              LET u == urls[results[k].from]
              IN  results[k].val = Message(mode, u, Alone(u, Cardinality(URLs)).result)

\* C3: every FeedResult parseFeedURL returns has exactly one of Feed and Err
\* set: Feed is non-nil if and only if Err is nil.
C3_ExactlyOneOfFeedAndErr ==
    call.pc = "returned" => (~call.result.Feed.nil <=> call.result.Err = NoErr)

\* a call that went through discovery has returned a feed
C3_Witness ==
    /\ call.pc = "returned"
    /\ call.url # call.cur
    /\ ~call.result.Feed.nil

\* C4: every FeedResult NewFeedsFromURLs produces carries the URL that was
\* requested for that entry.
C4_ResultCarriesRequestedURL ==
    mode = "feeds" =>
        \A k \in 1..Len(results) : results[k].val.URL = urls[results[k].from]

\* C5: a parseFeedURL call that has begun ends, each activation being
\* guaranteed to run.
C5_ParseFeedURLTerminates ==
    (call.pc = "running") ~> (call.pc # "running")

\* C6: for an ambiguous XML media type and a body with neither <rss nor
\* <feed, parseFeedURL returns a result with a non-nil error and no feed.
C6_SniffNeitherIsUnsupported ==
    (call.pc \in {"returned", "panicked"} /\ AmbiguousNeither(call.cur)) =>
        /\ call.pc = "returned"
        /\ call.result.Err # NoErr
        /\ call.result.Feed.nil

\* C7: NewFeedFromBytes returns the decoded feed together with the error
\* when the document decodes but fails validation, and no feed only when it
\* does not decode.
C7_InvalidFeedStillReturned ==
    last.op = "NewFeedFromBytes" =>
        IF Decode(last.type, last.doc).err # NoErr
        THEN last.feed.nil /\ last.err # NoErr
        ELSE ~last.feed.nil /\ (last.err # NoErr <=> ~last.doc.conformant)

\* C8: the SourceType tag of a constructed Feed names its payload's type and
\* is never empty.
C8_TagMatchesPayload ==
    ~obj.nil => (obj.SourceType = obj.source.type /\ obj.SourceType # "")

\* C9: after parseFeedURL succeeds, the returned feed's GetSourceURL() is the
\* URL the feed was fetched from.
C9_SourceURLIsFetchedURL ==
    (call.pc = "returned" /\ call.result.Err = NoErr) =>
        GetSourceURL(call.result.Feed.source) = call.cur

\* C10: when the fetch fails in transport or answers with an error status,
\* the activation returns a network error at once: it has only fetched (no
\* header read, classification, discovery or decoding) and the call is over.
C10_NetworkErrorFailsFast ==
    (call.pc # "idle" /\ NetworkFailure(call.cur)) =>
        \/ call.pc = "running"
        \/ /\ call.pc = "returned"
           /\ call.events = {"fetch"}
           /\ call.result.Feed.nil
           /\ call.result.Err.is = {"ErrParseURL"}
           /\ call.result.Err.msg \in {"transport", "status"}

\* a call has returned the error status of a URL found by discovery
C10_Witness ==
    /\ call.pc = "returned"
    /\ IsError(Get(call.cur))
    /\ call.url # call.cur

\* C11: every fetch is bound to the caller's context: once the context is
\* cancelled, a request in flight ends at that instant instead of running on,
\* and a request issued afterwards ends with the cancellation error
C11_EveryFetchHonoursCancellation ==
    /\ (req.pc = "inflight" /\ ctx.cancelled) => ctx.now = ctx.cancelledAt
    /\ (req.pc = "done" /\ req.afterCancel) => req.outcome = "canceled"

\* C12: under a context with no deadline, a request of parseFeedURL is never
\* in flight for longer than DefaultRequestTimeout
C12_FeedRequestTimesOut ==
    (req.pc = "inflight" /\ req.kind \in {"feed", "refetch"} /\ ~HasDeadline(ctx))
        => ctx.now - req.started <= DefaultRequestTimeout

\* the media-type token of a Content-Type header: what precedes the
\* parameters
MediaTypeToken(content) ==
    LET semi == IndexFrom(content, ";", 1)
    IN  TrimSpace(IF semi = 0 THEN content ELSE SubSeq(content, 1, semi - 1))

\* what decoding the body as `type` leads parseFeedURL to
DecodedAs(type, body) ==
    LET r == NewFeedFromBytes(type, body)
    IN  Finish(FetchedURL, r.feed, r.err, {"fetch", "header", "classify", "decode"})

\* C13: the decoder depends only on the media-type token of the header,
\* whatever parameters follow it: the RSS types select the RSS decoder, the
\* Atom type the Atom decoder, the JSON types the JSONFeed decoder, the HTML
\* types feed discovery, and any other type that is not ambiguous yields the
\* unsupported-media-type error
C13_DecoderDependsOnMediaTypeOnly ==
    ret.done =>
        LET token == MediaTypeToken(arg.content) IN
        CASE SeqContains(MimeTypesRSS, token) -> ret.hop = DecodedAs(TypeRSS, arg.body)
          [] SeqContains(MimeTypesAtom, token) -> ret.hop = DecodedAs(TypeAtom, arg.body)
          [] SeqContains(MimeTypesJSONFeed, token) ->
                ret.hop = DecodedAs(TypeJSONFeed, arg.body)
          [] SeqContains(MimeTypesHTML, token) ->
                ret.hop = Discover(FetchedURL, arg.body, {"fetch", "header", "classify"})
          [] SeqContains(MimeTypesIndeterminate, token) -> TRUE
          [] OTHER ->
                /\ ret.hop.kind = "return"
                /\ ret.hop.result = FeedResult(FetchedURL, NilFeed, UnsupportedMediaType)

\* C14: under an ambiguous media type, a body containing "<rss" goes to the
\* RSS decoder and a body containing "<feed" goes to the Atom decoder
C14_SniffDispatchesByMarker ==
    (ret.done /\ isMimeType(arg.content, MimeTypesIndeterminate)) =>
        /\ Contains(arg.body.text, "<rss") =>
              ret.hop.result = DecodedAs(TypeRSS, arg.body).result
        /\ Contains(arg.body.text, "<feed") =>
              ret.hop.result = DecodedAs(TypeAtom, arg.body).result

\* u is served as an HTML page in which discoverFeedURL finds a feed URL
PageDiscovers(u) ==
    /\ ~NetworkFailure(u)
    /\ isMimeType(Get(u).ctype, MimeTypesHTML)
    /\ discoverFeedURL(u, Get(u).body).kind = "ok"
    /\ discoverFeedURL(u, Get(u).body).url # ""

\* C15: when the requested URL is an HTML page and discovery yields d, what
\* parseFeedURL returns for the page is what the whole pipeline returns for d
C15_DiscoveryPropagatesFinalOutcome ==
    (call.pc = "returned" /\ PageDiscovers(call.url)) =>
        call.result = Alone(discoverFeedURL(call.url, Get(call.url).body).url,
                            Cardinality(URLs)).result

\* a page whose discovered feed URL answers with an error status
C15_Witness ==
    call.pc = "returned" /\ PageDiscovers(call.url) /\ call.result.Err.msg = "status"

\* the href attributes of an element, in the order written
Hrefs(tkn) == {i \in 1..Len(tkn.attr) : tkn.attr[i].key = "href"}

\* rule (a): rel="alternate" and a type among the feed media types
RuleAlternate(tkn) == LinkIsAlternateFeed(tkn)

\* rule (b) as the code tests it: the href is one of feed, rss, atom
RuleHrefExact(tkn) == LinkHrefIsFeed(tkn)

\* rule (b) as a suffix rule: the href ends in feed, rss or atom
RuleHrefSuffix(tkn) ==
    \E i \in Hrefs(tkn) :
        \E sfx \in {"feed", "rss", "atom"} : HasSuffix(tkn.attr[i].val, sfx)

\* an element discoverFeedURL's own tests accept, and which has a URL to give
Qualifies(tkn) ==
    \/ /\ tkn.tt = "SelfClosingTag" /\ tkn.data = "link" /\ Hrefs(tkn) # {}
       /\ (RuleAlternate(tkn) \/ RuleHrefExact(tkn))
    \/ /\ tkn.tt = "StartTag" /\ tkn.data = "a"
       /\ \E i \in Hrefs(tkn) : HasSuffix(tkn.attr[i].val, "feed")

\* the URL a qualifying element names
HrefOf(tkn) ==
    LET hits == IF tkn.data = "a"
                THEN {i \in Hrefs(tkn) : HasSuffix(tkn.attr[i].val, "feed")}
                ELSE Hrefs(tkn)
    IN  tkn.attr[CHOOSE i \in hits : \A j \in hits : i <= j].val

\* a reference made absolute against the page's URL
Resolved(path, href) ==
    IF IsAbs(UrlParse(href)) THEN UrlString(UrlParse(href))
    ELSE UrlString([UrlParse(path) EXCEPT !.path = JoinRoot(UrlParse(href).path)])

\* C16: for a page with at least one qualifying element, discoverFeedURL
\* returns the URL of the first of them in document order, however the
\* attributes inside the elements are ordered
C16_FirstQualifyingElementWins ==
    LET tokens == arg.doc.tokens
        hits == {i \in 1..Len(tokens) : Qualifies(tokens[i])}
    IN  (ret.done /\ hits # {}) =>
            ret.out = [kind |-> "ok",
                       url |-> Resolved(arg.path,
                                        HrefOf(tokens[CHOOSE i \in hits : \A j \in hits : i <= j]))]

\* C17: a self-closing <link> is taken as a feed reference if and only if it
\* has rel="alternate" with a feed media type, or its href ends in feed, rss
\* or atom; stated for a page that is one such element whose href is not its
\* first attribute
C17_LinkQualifiesByTypeOrSuffix ==
    LET tokens == arg.doc.tokens IN
    (/\ ret.done /\ Len(tokens) = 1
     /\ tokens[1].tt = "SelfClosingTag" /\ tokens[1].data = "link"
     /\ Hrefs(tokens[1]) # {} /\ 1 \notin Hrefs(tokens[1]))
        => (ret.out.kind = "ok" <=> (RuleAlternate(tokens[1]) \/ RuleHrefSuffix(tokens[1])))

\* how many authors an element carries: its <author> elements and its
\* <dc:creator>
AuthorCount(x) == Len(x.Authors) + (IF x.DCCreator # Nil THEN 1 ELSE 0)

\* C18: Validate reports the feed-author error exactly when the feed has no
\* author of its own and some entry has none either; a feed with an author
\* passes the rule whatever its entries carry
C18_AuthorCrossRule ==
    ret.done =>
        ("ErrFeedValidation" \in ret.err.is
            <=> (AuthorCount(arg) = 0
                 /\ \E i \in 1..Len(arg.Entries) : AuthorCount(arg.Entries[i]) = 0))

\* a feed without authors whose first entry has one and whose second has none
C18_Witness ==
    /\ ret.done /\ AuthorCount(arg) = 0 /\ Len(arg.Entries) = 2
    /\ AuthorCount(arg.Entries[1]) > 0 /\ AuthorCount(arg.Entries[2]) = 0
    /\ "ErrFeedValidation" \in ret.err.is


\* the date element of the document a getter reports: an RSS item's updated
\* date is its pubDate
SourceDate(doc, which) ==
    IF which = "published" \/ doc.format = "rss" THEN doc.published ELSE doc.updated

\* C19: for every item type, GetPublishedDate and GetUpdatedDate return the
\* Unix epoch, never the zero time, when the source document carries no
\* corresponding date
C19_AbsentDateIsEpoch ==
    /\ (ret.gotPublished /\ ~SourceDate(arg, "published").present)
            => ret.published = UnixEpoch
    /\ (ret.gotUpdated /\ ~SourceDate(arg, "updated").present)
            => ret.updated = UnixEpoch

\* the date string the element carries
DateString(format, elem) ==
    IF format = "json" THEN SubSeq(elem.text, 2, Len(elem.text) - 1) ELSE elem.text

\* the element is a date string that no format of DateTimeFormats parses
MatchesNone(format, elem) ==
    /\ elem.present
    /\ format = "json" => IsJSONString(elem.text)
    /\ \A i \in 1..Len(DateTimeFormats) :
            ~Parse(DateTimeFormats[i], TrimSpace(DateString(format, elem))).ok

\* C20: decoding a date string that matches none of the formats in
\* DateTimeFormats fails with an error wrapping ErrInvalidDateTimeFormat, so
\* the decode of the document that carries it reports an error instead of
\* storing a zero time
C20_UnmatchedDateFailsDecode ==
    (/\ ret.pc # "document"
     /\ \/ MatchesNone(arg.format, arg.published)
        \/ MatchesNone(arg.format, arg.updated))
        => (ret.pc = "failed" /\ "ErrInvalidDateTimeFormat" \in ret.err.is)


\* the display string the specification gives a person: the name, and the
\* email in parentheses when there is one
NameAndEmail(p) ==
    IF p.email # Nil /\ p.email # "" THEN p.name \o " (" \o p.email \o ")" ELSE p.name

\* C21: the display string of an Atom person is exactly "Name" when the
\* person has no email and exactly "Name (email)" when it has one, whatever
\* other fields, such as a URI, the person carries
C21_PersonStringIsNameAndEmail ==
    ret.authors.called =>
        \A i \in 1..Len(arg.Authors) : ret.authors.val[i] = NameAndEmail(arg.Authors[i])

\* C23: GetContributors returns the display strings of the <contributor>
\* elements followed by the value of <dc:contributor> when one is present,
\* and never faults, whatever author, creator and contributor fields are
\* present
C23_ContributorsListed ==
    ret.contributors.called =>
        /\ ~ret.contributors.panic
        /\ ret.contributors.val =
              [i \in 1..Len(arg.Contributors) |-> PersonString(arg.Contributors[i])]
                \o (IF arg.DCContributor # Nil THEN <<DCString(arg.DCContributor)>> ELSE <<>>)


\* C22: sanitization is idempotent: for every text, markup and escaped
\* markup included, SanitizeString(SanitizeString(x)) = SanitizeString(x)
C22_SanitizeIdempotent == ret.n = 2 => ret.twice = ret.once


\* C24: GetID on an RSS item returns the value of the item's <guid> when
\* present and the empty string when the item has none; it never faults
C24_ItemIDOrEmpty ==
    ret.id.called =>
        /\ ~ret.id.panic
        /\ ret.id.val = (IF arg.GUID.nil THEN "" ELSE arg.GUID.Value)

\* the image the sources of an item yield, taken in the order <image>,
\* <enclosure> of an image type, <media:content> that is an image, first
\* <media:thumbnail>
FirstImageYielded(i) ==
    IF ~i.Image.nil THEN ImageInfo(i.Image.Link)
    ELSE IF ~i.Enclosure.nil /\ IsImage(i.Enclosure.Type) THEN ImageInfo(i.Enclosure.URL)
    ELSE IF ~i.MediaContent.nil /\ (i.MediaContent.Medium = "image" \/ IsImage(i.MediaContent.Type))
    THEN ImageInfo(i.MediaContent.Url)
    ELSE IF Len(i.MediaThumbnails) > 0 THEN ImageInfo(i.MediaThumbnails[1])
    ELSE NoImageInfo

\* C25: GetImage on an RSS item returns the image of the first source, in
\* that order, that yields one, and nil only when none of the four does
C25_FirstImageSourceWins ==
    ret.image.called => ret.image.info = FirstImageYielded(arg)


\* the feed's image is the picked URL: the URL itself when it is absolute,
\* a URL of the feed's site ending in it when it is relative
ImageIs(feed, picked) ==
    IF IsAbs(UrlParse(picked)) THEN feed.image = picked
    ELSE HasPrefix(feed.image, Site \o "/") /\ HasSuffix(feed.image, picked)

EachFetchReturns ==
    \A i \in 1..Len(urls) : Alone(urls[i], Cardinality(URLs)).kind = "return"

\* the channel is closed only once every worker has sent and finished, and
\* the launcher that is about to close it finds it open
ClosedAfterAllSends ==
    /\ closed => \A w \in 1..Len(urls) : workers[w].pc = "done"
    /\ launcher.pc = "closing" => ~closed
    /\ \A w \in 1..Len(urls) : workers[w].pc = "sending" => ~closed

\* C27: in NewFeedsFromURLs and NewItemsFromURLs the result channel is
\* closed exactly once and only after every worker has completed its send,
\* so no worker sends on a closed channel; and, provided each per-URL fetch
\* returns, neither a worker nor the collector stays blocked: every worker
\* finishes and the call returns
C27_ClosedOnceAfterSendsNoDeadlock ==
    /\ []ClosedAfterAllSends
    /\ EachFetchReturns ~>
          (collector = "returned" /\ \A w \in 1..Len(urls) : workers[w].pc = "done")

\* an items batch of two different URLs whose fetches return has closed its
\* channel and returned, the first worker's result first
C27_Witness ==
    /\ EachFetchReturns
    /\ mode = "items" /\ Len(urls) = 2 /\ urls[1] # urls[2]
    /\ closed /\ collector = "returned"
    /\ results[1].from = 1


\* a <link> that passes the rel/type rule and carries no href attribute
HreflessLink(tkn) ==
    /\ tkn.tt = "SelfClosingTag" /\ tkn.data = "link"
    /\ RuleAlternate(tkn) /\ Hrefs(tkn) = {}

\* C28: discoverFeedURL returns a URL or an error for every document and
\* never faults; a <link> that satisfies the rel/type rule and has no href is
\* skipped: the outcome is that of the document without such elements
C28_DiscoverTotalSkipsHrefless ==
    LET tokens == arg.doc.tokens
        kept == SelectSeq(tokens, LAMBDA tkn : ~HreflessLink(tkn))
    IN  ret.done =>
            /\ ret.out.kind \in {"ok", "error"}
            /\ ret.out = discoverFeedURL(arg.path, HTMLDoc(kept))


\* the number of bytes of stream up to the end of its first </head> tag,
\* 0 when it has none
FirstHeadEnd(stream) ==
    LET idx == IndexFrom(ToLower(stream), HeadEnd, 1) IN
    IF idx = 0 THEN 0 ELSE idx - 1 + Len(HeadEnd)

\* C29: over any sequence of Read calls HeadReader delivers no byte that
\* lies after the end of the first </head> tag, however the stream is split
\* into chunks, and every Read after the tag has been delivered returns
\* (0, EOF)
C29_NothingPastHeadEnd ==
    LET end == FirstHeadEnd(arg.stream) IN
    end # 0 =>
        /\ Len(ret.delivered) <= end
        /\ (ret.calls > 0 /\ ret.before >= end) => (ret.n = 0 /\ ret.err = "EOF")


\* m is the k-th smallest of data
IsKth(data, k, m) ==
    /\ \E i \in 1..Len(data) : data[i] = m
    /\ Cardinality({i \in 1..Len(data) : DurationLess(data[i], m)}) <= k - 1
    /\ Cardinality({i \in 1..Len(data) : DurationLess(m, data[i])}) <= Len(data) - k

\* b - a for a <= b, as the unsigned 64-bit number it is
Distance(a, b) == AddWithCarry(b, [i \in 1..4 |-> 65535 - a[i]], 1)

\* m is the mean of a <= b, rounded to a whole nanosecond either way
IsMean(a, b, m) ==
    LET half == ShiftRight(Distance(a, b), 0) IN
    \/ m = DurationAdd(a, half)
    \/ m = AddWithCarry(a, half, Distance(a, b)[1] % 2)

\* C30: GetMedianInterval returns the median of the durations: the middle
\* element of the sorted values for an odd length, the mean of the two middle
\* elements for an even length and 0 for no durations; the caller's slice
\* keeps its elements in their order
C30_MedianOfDurations ==
    LET l == Len(arg) IN
    ret.called =>
        /\ ret.data = arg
        /\ l = 0 => ret.median = Nanoseconds(0)
        /\ l % 2 = 1 => IsKth(arg, (l + 1) \div 2, ret.median)
        /\ (l > 0 /\ l % 2 = 0) =>
              \E i, j \in 1..l : /\ IsKth(arg, l \div 2, arg[i])
                                 /\ IsKth(arg, l \div 2 + 1, arg[j])
                                 /\ IsMean(arg[i], arg[j], ret.median)

====
